---- MODULE Spec2Model ----
(***************************************************************************)
(* Forbin: connection establishment and session lifecycle.                 *)
(*                                                                         *)
(*   src/forbin/client.py  MCPSession, wake_up_server,                      *)
(*                         connect_to_mcp_server, connect_and_list_tools    *)
(*   src/forbin/cli.py     reconnect, test_connectivity,                    *)
(*                         interactive_session                              *)
(*   src/forbin/tools.py   call_tool                                        *)
(*                                                                         *)
(* Every coroutine has its own program counter: cPc for the two connect    *)
(* functions, wkPc for wake_up_server, clPc for MCPSession.cleanup, rcPc   *)
(* for reconnect, ctPc for call_tool and pc for interactive_session and    *)
(* test_connectivity.  A caller starts a callee by setting the callee's    *)
(* counter and waits until it reads "returned".                            *)
(***************************************************************************)
EXTENDS Integers, Sequences, FiniteSets, TLC

\* ------------------------------------------------------------------ bounds
\* largest max_attempts argument tried when a connect function is called directly
MaxAttemptsArg == 3
\* a successful listing returns 0..MaxTools tools
MaxTools == 1
\* reconnects after a configuration edit in one interactive session
MaxReconnects == 2
\* largest max_attempts argument tried when wake_up_server is called directly
MaxWakeArg == 4
\* writes counted after a pattern line
MaxLines == 11
\* prompts counted for one parameter of get_tool_parameters
MaxAsks == 3

\* ------------------------------------------------------- program constants
\* reconnect: connect_and_list_tools(max_attempts=3, ...)
RECONNECT_CONNECT_ATTEMPTS == 3
\* reconnect: wake_up_server(..., max_attempts=6, ...)
RECONNECT_WAKE_ATTEMPTS == 6
\* self.suppress_depth = 10  # Suppress next 10 lines
SUPPRESS_LINES == 10

VARIABLES
    clients,          \* the Client(...) objects constructed and not yet dropped: [st, exits]
    events,           \* what the running top-level call did so far, in order
    \* connect_to_mcp_server / connect_and_list_tools frame
    fn,               \* which of the two is running ("" when none)
    cPc,
    max_attempts,
    attempt,
    client,           \* local `client` (0 is None)
    cal_mcp_session,  \* local `mcp_session` of connect_and_list_tools
    cErr,             \* the exception in flight ("" when none)
    cRet,             \* the value returned
    shown,            \* the attempts whose handler printed its message on the console
    \* wake_up_server frame
    wkPc,
    wkMax,
    wkAttempt,
    wkRet,
    wkSeen,           \* the failed responses this call has met so far
    \* reconnect frame
    rcPc,
    old_session,
    rcRet,
    \* interactive_session frame
    pc,
    mcp_session,
    tools,
    selected_tool,
    listener_task,
    healthUrl,        \* config.MCP_HEALTH_URL is set
    MCP_SERVER_URL,   \* config.MCP_SERVER_URL is set
    MCP_TOKEN,        \* config.MCP_TOKEN is set
    VERBOSE,          \* config.VERBOSE
    reconnects,       \* reconnects made from the loop so far
    obtained,         \* clients of the sessions the loop was handed
    \* call_tool frame
    ctPc,
    ctSession,
    tool_task,
    esc_task,
    ctOutcome,
    settled,          \* the tasks that finished by themselves, in that order
    last_outcome,     \* how the previous call_tool of this tool view ended
    \* MCPSession.cleanup frame
    clPc,
    clSession,        \* self
    clErr,            \* what the awaited __aexit__ did ("" before it)
    \* parse_parameter_value frame
    value_str,        \* the text typed, a sequence of characters
    param_type,
    parsed,           \* what the call returned or raised
    \* get_tool_parameters frame
    inputSchema,      \* tool.inputSchema: [kind, properties, required]
    params,           \* the dict being filled: parameter name -> value
    gpPc,
    gpIdx,            \* position of param_name in properties.items()
    gpAsked,          \* prompts made for that parameter so far
    \* a key-reading task: listen_for_toggle or _wait_for_escape
    reader,           \* [fn, pc, cause, switched, restore]
    tty_mode,         \* the settings the terminal is in
    old_settings,     \* local `old_settings` ("" before tcgetattr)
    \* FilteredStderr
    cls,              \* the class the object is of: utils.py or forbin.py
    suppressing,
    suppress_depth,
    last,             \* the last write(text) and what went to original_stderr
    episode,          \* where the writes stand after a pattern line
    between           \* writes since that pattern line

settings == <<MCP_SERVER_URL, MCP_TOKEN, VERBOSE>>
connVars == <<fn, cPc, max_attempts, attempt, client, cal_mcp_session, cErr, cRet,
              shown>>
wakeVars == <<wkPc, wkMax, wkAttempt, wkRet, wkSeen>>
rcVars   == <<rcPc, old_session, rcRet>>
loopVars == <<pc, mcp_session, tools, selected_tool, listener_task, healthUrl, settings,
              reconnects, obtained>>
ctFrame  == <<ctPc, ctSession, tool_task, esc_task, ctOutcome, settled>>
ctVars   == <<ctFrame, last_outcome>>
clVars   == <<clPc, clSession, clErr>>
parseVars == <<value_str, param_type, parsed>>
errVars  == <<cls, suppressing, suppress_depth, last, episode, between>>
gtpVars  == <<inputSchema, params, gpPc, gpIdx, gpAsked>>
ttyVars  == <<reader, tty_mode, old_settings>>
auxVars  == <<parseVars, errVars, gtpVars, ttyVars>>
vars     == <<clients, events, connVars, wakeVars, rcVars, loopVars, ctVars, clVars,
              auxVars>>

\* ------------------------------------------------------------------ values
NoClient == 0

\* MCPSession(client, session): `session` is what client.__aenter__() returned,
\* named here by the client that produced it
MCPSession(c, s) == [client |-> c, session |-> s]

\* Python None where a session is expected
None == [client |-> 0, session |-> 0]

\* the list a successful list_tools() on session s returned, with n tools
ToolList(s, n) == [kind |-> "list", from |-> s, n |-> n]

\* the literal []
EmptyList == [kind |-> "list", from |-> 0, n |-> 0]

\* Python None where a tool list is expected
NoneTools == [kind |-> "None", from |-> 0, n |-> 0]

\* the i-th descriptor of the list that was listed from session s
Tool(s, i) == [from |-> s, idx |-> i]

\* no tool selected yet
NoTool == [from |-> 0, idx |-> 0]

\* truth value of a tool list: None and [] are falsy
Truthy(t) == t.kind = "list" /\ t.n > 0

\* exceptions a Client call may raise; the first is asyncio.TimeoutError
ErrorNames ==
    {"TimeoutError", "BrokenResourceError", "ClosedResourceError", "RuntimeError"}

\* `"BrokenResourceError" in error_name or "ClosedResourceError" in error_name`:
\* the errors reported as "Connection error (server not ready)"
NotReady(error_name) ==
    error_name \in {"BrokenResourceError", "ClosedResourceError"}

Ev(e, c) == [e |-> e, c |-> c]

CountEv(e) == Cardinality({i \in DOMAIN events : events[i].e = e})

\* ----------------------------------------------------------------- clients
\* Client(...): a new object, not yet entered
NewClient == [st |-> "constructed", exits |-> 0]

\* client.__aenter__() returned
Entered(c) == [clients EXCEPT ![c].st = "open"]

\* client.__aenter__() raised: whatever it had opened is still there
EnterFailed(c) == [clients EXCEPT ![c].st = "half"]

\* client.__aexit__(None, None, None) was called on c
Exited(c) == [clients EXCEPT ![c].st = "released", ![c].exits = @ + 1]

\* what an awaited __aexit__ does: returns or raises
AexitOutcomes == {"ok", "raise"}

Swallowed_Propagates(outcome) == FALSE

\* `try: await client.__aexit__(...) except Exception: pass`
Swallowed(outcome) == TRUE

\* where control goes after a release inside an except block
AfterRelease(outcome, next) ==
    IF outcome = "raise" /\ ~Swallowed(outcome) THEN "raised" ELSE next

\* the clients whose session.list_tools() returned / raised, by the record
ListedOk == {events[i].c : i \in {j \in DOMAIN events : events[j].e = "listed"}}
ListFailed == {events[i].c : i \in {j \in DOMAIN events : events[j].e = "list_failed"}}

Live == {c \in DOMAIN clients : clients[c].st \in {"open", "half"}}

\* Once the loop has taken what reconnect returned, the clients of the failed
\* attempts are released and nothing refers to them any more: they are dropped
\* from `clients` and the ones that stay are numbered anew, in the same order.
\* The clients that stay when session `new` is the one returned:
Reachable(new) ==
    {c \in DOMAIN clients :
        c \in obtained \/ c = new.client \/ clients[c].st # "released"}

\* the new number of client c among the clients K that stay (0 stays 0)
Rank(c, K) == Cardinality({d \in K : d <= c})

Renumbered(s, K) == MCPSession(Rank(s.client, K), Rank(s.session, K))

Collected(K) ==
    [i \in 1..Cardinality(K) |-> clients[CHOOSE c \in K : Rank(c, K) = i]]

\* -------------------------------------------------------- MCPSession.cleanup
CleanupSwallows_Nothing(err) == FALSE

\* `except Exception: pass` around the awaited __aexit__
CleanupSwallows(err) == TRUE

\* `await s.cleanup()` up to the point where __aexit__ has been awaited:
\* if self.client: try: await self.client.__aexit__(None, None, None)
CleanupCall(s) ==
    /\ clSession' = s
    /\ IF s.client # NoClient
       THEN \E r \in AexitOutcomes :
               /\ clients' = Exited(s.client)
               /\ clErr' = r
               /\ clPc' = IF r = "raise" THEN "except" ELSE "returned"
       ELSE /\ clErr' = ""
            /\ clPc' = "returned"
            /\ UNCHANGED clients

\* the caller has taken cleanup's return
CleanupTaken == clPc' = "idle" /\ clSession' = None /\ clErr' = ""

\* except Exception: pass
ClExcept ==
    /\ clPc = "except"
    /\ clPc' = IF CleanupSwallows(clErr) THEN "returned" ELSE "raised"
    /\ UNCHANGED <<clients, events, connVars, wakeVars, rcVars, loopVars, ctVars,
                   clSession, clErr>>
    /\ UNCHANGED auxVars

Cleanup == ClExcept

\* ------------------------------------------------- connect_to_mcp_server
notConn == <<wakeVars, rcVars, loopVars, ctVars>>

\* for attempt in range(1, max_attempts + 1): client = None
CtmNextAttempt ==
    /\ fn = "connect_to_mcp_server" /\ cPc = "for"
    /\ attempt < max_attempts
    /\ attempt' = attempt + 1
    /\ client' = NoClient
    /\ cPc' = "construct"
    /\ events' = Append(events, Ev("attempt", attempt + 1))
    /\ UNCHANGED <<clients, fn, max_attempts, cal_mcp_session, cErr, cRet, notConn>>
    /\ UNCHANGED clVars
    /\ UNCHANGED shown
    /\ UNCHANGED auxVars

\* the loop ran out: return None
CtmExhausted ==
    /\ fn = "connect_to_mcp_server" /\ cPc = "for"
    /\ attempt >= max_attempts
    /\ cRet' = [session |-> None, tools |-> NoneTools]
    /\ cPc' = "returned"
    /\ UNCHANGED <<clients, events, fn, max_attempts, attempt, client,
                   cal_mcp_session, cErr, notConn>>
    /\ UNCHANGED clVars
    /\ UNCHANGED shown
    /\ UNCHANGED auxVars

\* client = Client(server_url, auth=..., init_timeout=30.0, timeout=600.0)
CtmConstruct ==
    /\ fn = "connect_to_mcp_server" /\ cPc = "construct"
    /\ \/ /\ clients' = Append(clients, NewClient)
          /\ client' = Len(clients) + 1
          /\ events' = Append(events, Ev("construct", Len(clients) + 1))
          /\ cPc' = "aenter"
          /\ UNCHANGED cErr
       \/ /\ cErr' = "RuntimeError"
          /\ cPc' = "except"
          /\ UNCHANGED <<clients, client, events>>
    /\ UNCHANGED <<fn, max_attempts, attempt, cal_mcp_session, cRet, notConn>>
    /\ UNCHANGED clVars
    /\ UNCHANGED shown
    /\ UNCHANGED auxVars

\* the wrapper is built and returned whether or not the handshake raised
CtmEnter_ReturnsUnentered ==
    /\ fn = "connect_to_mcp_server" /\ cPc = "aenter"
    /\ events' = Append(events, Ev("aenter", client))
    /\ \/ clients' = Entered(client)
       \/ clients' = EnterFailed(client)
    /\ cRet' = [session |-> MCPSession(client, client), tools |-> NoneTools]
    /\ cPc' = "returned"
    /\ UNCHANGED <<cErr, fn, max_attempts, attempt, client, cal_mcp_session, notConn>>
    /\ UNCHANGED clVars
    /\ UNCHANGED shown
    /\ UNCHANGED auxVars

\* session = await client.__aenter__(); return MCPSession(client, session)
CtmEnter ==
    /\ fn = "connect_to_mcp_server" /\ cPc = "aenter"
    /\ events' = Append(events, Ev("aenter", client))
    /\ \/ /\ clients' = Entered(client)
          /\ cRet' = [session |-> MCPSession(client, client), tools |-> NoneTools]
          /\ cPc' = "returned"
          /\ UNCHANGED cErr
       \/ /\ \E e \in ErrorNames : cErr' = e
          /\ clients' = EnterFailed(client)
          /\ cPc' = "except"
          /\ UNCHANGED cRet
    /\ UNCHANGED <<fn, max_attempts, attempt, client, cal_mcp_session, notConn>>
    /\ UNCHANGED clVars
    /\ UNCHANGED shown
    /\ UNCHANGED auxVars

\* the message is printed on every failed attempt
ShowsMessage_Always(a, m) == TRUE

\* `if config.VERBOSE or attempt == max_attempts:` in front of the one-line
\* message of a handler ("Timeout (server not responding)", "Connection error
\* (server not ready)" for a BrokenResourceError or ClosedResourceError, or the
\* error's name and text)
ShowsMessage(a, m) == VERBOSE \/ a = m

\* the attempts with a message on the console once this handler has run
Reported == IF ShowsMessage(attempt, max_attempts) THEN shown \cup {attempt} ELSE shown

SleepNeeded_Always(a, m) == TRUE

\* with verbose on the retry follows at once
SleepNeeded_NotWhenVerbose(a, m) == ~VERBOSE /\ a < m

\* `if attempt < max_attempts:` in front of the sleep
SleepNeeded(a, m) == a < m

ShouldRelease_Never(c) == FALSE

\* `if client:` in front of the release
ShouldRelease(c) == c # NoClient

\* the body shared by the handlers: `if client: try: await client.__aexit__(...)
\* except Exception: pass`, then `if attempt < max_attempts: await asyncio.sleep(...)`
ReleaseThenContinue ==
    LET next == IF SleepNeeded(attempt, max_attempts) THEN "sleep" ELSE "for" IN
    IF ShouldRelease(client)
    THEN \E r \in AexitOutcomes :
            /\ clients' = Exited(client)
            /\ events' = Append(events, Ev("aexit", client))
            /\ cPc' = AfterRelease(r, next)
    ELSE /\ cPc' = next
         /\ UNCHANGED <<clients, events>>

\* except asyncio.TimeoutError:
CtmExceptTimeout ==
    /\ fn = "connect_to_mcp_server" /\ cPc = "except"
    /\ cErr = "TimeoutError"
    /\ ReleaseThenContinue
    /\ cErr' = IF cPc' = "sleep" THEN cErr ELSE ""
    /\ shown' = Reported
    /\ UNCHANGED <<fn, max_attempts, attempt, client, cal_mcp_session, cRet, notConn>>
    /\ UNCHANGED clVars
    /\ UNCHANGED auxVars

\* except Exception as e:
CtmExceptException ==
    /\ fn = "connect_to_mcp_server" /\ cPc = "except"
    /\ cErr \in ErrorNames \ {"TimeoutError"}
    /\ ReleaseThenContinue
    /\ cErr' = IF cPc' = "sleep" THEN cErr ELSE ""
    /\ shown' = Reported
    /\ UNCHANGED <<fn, max_attempts, attempt, client, cal_mcp_session, cRet, notConn>>
    /\ UNCHANGED clVars
    /\ UNCHANGED auxVars

\* await asyncio.sleep(wait_seconds), the last statement of the except block
CtmSleep ==
    /\ fn = "connect_to_mcp_server" /\ cPc = "sleep"
    /\ events' = Append(events, Ev("sleep", 0))
    /\ cPc' = "for"
    /\ cErr' = ""
    /\ UNCHANGED <<clients, fn, max_attempts, attempt, client, cal_mcp_session,
                   cRet, notConn>>
    /\ UNCHANGED clVars
    /\ UNCHANGED shown
    /\ UNCHANGED auxVars

ConnectToMcpServer ==
    \/ CtmNextAttempt \/ CtmExhausted \/ CtmConstruct \/ CtmEnter
    \/ CtmExceptTimeout \/ CtmExceptException \/ CtmSleep

\* ------------------------------------------------ connect_and_list_tools
\* for attempt in range(1, max_attempts + 1): client = None
CalNextAttempt ==
    /\ fn = "connect_and_list_tools" /\ cPc = "for"
    /\ attempt < max_attempts
    /\ attempt' = attempt + 1
    /\ client' = NoClient
    /\ cPc' = "construct"
    /\ events' = Append(events, Ev("attempt", attempt + 1))
    /\ UNCHANGED <<clients, fn, max_attempts, cal_mcp_session, cErr, cRet, notConn>>
    /\ UNCHANGED clVars
    /\ UNCHANGED shown
    /\ UNCHANGED auxVars

\* the loop ran out: return None, []
CalExhausted ==
    /\ fn = "connect_and_list_tools" /\ cPc = "for"
    /\ attempt >= max_attempts
    /\ cRet' = [session |-> None, tools |-> EmptyList]
    /\ cPc' = "returned"
    /\ UNCHANGED <<clients, events, fn, max_attempts, attempt, client,
                   cal_mcp_session, cErr, notConn>>
    /\ UNCHANGED clVars
    /\ UNCHANGED shown
    /\ UNCHANGED auxVars

\* client = Client(server_url, auth=..., init_timeout=30.0, timeout=600.0)
CalConstruct ==
    /\ fn = "connect_and_list_tools" /\ cPc = "construct"
    /\ \/ /\ clients' = Append(clients, NewClient)
          /\ client' = Len(clients) + 1
          /\ events' = Append(events, Ev("construct", Len(clients) + 1))
          /\ cPc' = "aenter"
          /\ UNCHANGED cErr
       \/ /\ cErr' = "RuntimeError"
          /\ cPc' = "except"
          /\ UNCHANGED <<clients, client, events>>
    /\ UNCHANGED <<fn, max_attempts, attempt, cal_mcp_session, cRet, notConn>>
    /\ UNCHANGED clVars
    /\ UNCHANGED shown
    /\ UNCHANGED auxVars

\* a failed handshake is ignored and the listing goes ahead on whatever
\* mcp_session holds
CalEnter_IgnoresFailure ==
    /\ fn = "connect_and_list_tools" /\ cPc = "aenter"
    /\ events' = Append(events, Ev("aenter", client))
    /\ \/ /\ clients' = Entered(client)
          /\ cal_mcp_session' = MCPSession(client, client)
       \/ /\ clients' = EnterFailed(client)
          /\ UNCHANGED cal_mcp_session
    /\ cPc' = "list_tools"
    /\ UNCHANGED <<cErr, fn, max_attempts, attempt, client, cRet, notConn>>
    /\ UNCHANGED clVars
    /\ UNCHANGED shown
    /\ UNCHANGED auxVars

\* session = await client.__aenter__(); mcp_session = MCPSession(client, session)
CalEnter ==
    /\ fn = "connect_and_list_tools" /\ cPc = "aenter"
    /\ events' = Append(events, Ev("aenter", client))
    /\ \/ /\ clients' = Entered(client)
          /\ cal_mcp_session' = MCPSession(client, client)
          /\ cPc' = "list_tools"
          /\ UNCHANGED cErr
       \/ /\ \E e \in ErrorNames : cErr' = e
          /\ clients' = EnterFailed(client)
          /\ cPc' = "except"
          /\ UNCHANGED cal_mcp_session
    /\ UNCHANGED <<fn, max_attempts, attempt, client, cRet, notConn>>
    /\ UNCHANGED clVars
    /\ UNCHANGED shown
    /\ UNCHANGED auxVars

\* the failure is dropped and the session returned with an empty list
CalListFailed_ReturnsEmpty(e) ==
    /\ events' = events \o <<Ev("list_tools", cal_mcp_session.session),
                              Ev("list_failed", cal_mcp_session.session)>>
    /\ cRet' = [session |-> cal_mcp_session, tools |-> EmptyList]
    /\ cPc' = "returned"
    /\ UNCHANGED cErr

\* the listing raised e or ran into its 15 s timeout: the exception leaves the try
CalListFailed(e) ==
    /\ events' = events \o <<Ev("list_tools", cal_mcp_session.session),
                              Ev("list_failed", cal_mcp_session.session)>>
    /\ cErr' = e
    /\ cPc' = "except"
    /\ UNCHANGED cRet

\* the listing's result is stored but the loop is not left
CalListTools_KeepsLooping ==
    /\ fn = "connect_and_list_tools" /\ cPc = "list_tools"
    /\ \/ \E n \in 0..MaxTools :
              /\ events' = events \o <<Ev("list_tools", cal_mcp_session.session),
                                        Ev("listed", cal_mcp_session.session)>>
              /\ cRet' = [session |-> cal_mcp_session,
                          tools |-> ToolList(cal_mcp_session.session, n)]
              /\ cPc' = "for"
              /\ UNCHANGED cErr
       \/ \E e \in ErrorNames : CalListFailed(e)
    /\ UNCHANGED <<clients, fn, max_attempts, attempt, client, cal_mcp_session,
                   notConn>>
    /\ UNCHANGED clVars
    /\ UNCHANGED shown
    /\ UNCHANGED auxVars

\* tools = await asyncio.wait_for(mcp_session.session.list_tools(), timeout=15.0)
\* return mcp_session, tools
CalListTools ==
    /\ fn = "connect_and_list_tools" /\ cPc = "list_tools"
    /\ \/ \E n \in 0..MaxTools :
              /\ events' = events \o <<Ev("list_tools", cal_mcp_session.session),
                                        Ev("listed", cal_mcp_session.session)>>
              /\ cRet' = [session |-> cal_mcp_session,
                          tools |-> ToolList(cal_mcp_session.session, n)]
              /\ cPc' = "returned"
              /\ UNCHANGED cErr
       \/ \E e \in ErrorNames : CalListFailed(e)
    /\ UNCHANGED <<clients, fn, max_attempts, attempt, client, cal_mcp_session,
                   notConn>>
    /\ UNCHANGED clVars
    /\ UNCHANGED shown
    /\ UNCHANGED auxVars

\* except asyncio.TimeoutError:
CalExceptTimeout ==
    /\ fn = "connect_and_list_tools" /\ cPc = "except"
    /\ cErr = "TimeoutError"
    /\ ReleaseThenContinue
    /\ cErr' = IF cPc' = "sleep" THEN cErr ELSE ""
    /\ shown' = Reported
    /\ UNCHANGED <<fn, max_attempts, attempt, client, cal_mcp_session, cRet, notConn>>
    /\ UNCHANGED clVars
    /\ UNCHANGED auxVars

\* except Exception as e:
CalExceptException ==
    /\ fn = "connect_and_list_tools" /\ cPc = "except"
    /\ cErr \in ErrorNames \ {"TimeoutError"}
    /\ ReleaseThenContinue
    /\ cErr' = IF cPc' = "sleep" THEN cErr ELSE ""
    /\ shown' = Reported
    /\ UNCHANGED <<fn, max_attempts, attempt, client, cal_mcp_session, cRet, notConn>>
    /\ UNCHANGED clVars
    /\ UNCHANGED auxVars

\* await asyncio.sleep(wait_seconds)
CalSleep ==
    /\ fn = "connect_and_list_tools" /\ cPc = "sleep"
    /\ events' = Append(events, Ev("sleep", 0))
    /\ cPc' = "for"
    /\ cErr' = ""
    /\ UNCHANGED <<clients, fn, max_attempts, attempt, client, cal_mcp_session,
                   cRet, notConn>>
    /\ UNCHANGED clVars
    /\ UNCHANGED shown
    /\ UNCHANGED auxVars

ConnectAndListTools ==
    \/ CalNextAttempt \/ CalExhausted \/ CalConstruct \/ CalEnter \/ CalListTools
    \/ CalExceptTimeout \/ CalExceptException \/ CalSleep

\* --------------------------------------------------------- wake_up_server
notWake == <<clients, connVars, rcVars, loopVars, ctVars>>

\* what one client.get(health_url) can come to
Responses == {"200", "503", "ConnectError", "TimeoutException", "Exception"}

\* the loop runs once more than max_attempts
WkNextAttempt_OneMore ==
    /\ wkPc = "for"
    /\ wkAttempt <= wkMax
    /\ wkAttempt' = wkAttempt + 1
    /\ wkPc' = "get"
    /\ UNCHANGED <<events, wkMax, wkRet, wkSeen, notWake>>
    /\ UNCHANGED clVars
    /\ UNCHANGED auxVars

\* for attempt in range(1, max_attempts + 1):
WkNextAttempt ==
    /\ wkPc = "for"
    /\ wkAttempt < wkMax
    /\ wkAttempt' = wkAttempt + 1
    /\ wkPc' = "get"
    /\ UNCHANGED <<events, wkMax, wkRet, wkSeen, notWake>>
    /\ UNCHANGED clVars
    /\ UNCHANGED auxVars

\* the loop ran out: return False
WkExhausted ==
    /\ wkPc = "for"
    /\ wkAttempt >= wkMax
    /\ wkRet' = FALSE
    /\ wkPc' = "returned"
    /\ UNCHANGED <<events, wkMax, wkAttempt, wkSeen, notWake>>
    /\ UNCHANGED clVars
    /\ UNCHANGED auxVars

\* the responses that are a status code; the others are exceptions
StatusCodes == {"200", "503"}

\* only the transport errors are caught
WkCaught_TransportOnly(r) == r \in {"ConnectError", "TimeoutException"}

\* `except (httpx.ConnectError, httpx.TimeoutException)` and `except Exception`
WkCaught(r) == r \in {"ConnectError", "TimeoutException"} \/ r = "Exception"

\* a sleep follows every failed attempt
WkSleepNeeded_AfterEvery(a, m) == TRUE

\* `if attempt < max_attempts:` in front of `await asyncio.sleep(wait_seconds)`
WkSleepNeeded(a, m) == a < m

\* response = await client.get(health_url): 200 returns True; another status
\* and every exception that is caught fall through to `if attempt < max_attempts`.
\* The GET is recorded with 200 when that is the status it got, with 0 otherwise.
WkGet ==
    /\ wkPc = "get"
    /\ \E r \in Responses :
          IF r = "200"
          THEN /\ events' = Append(events, Ev("get", 200))
               /\ wkRet' = TRUE
               /\ wkPc' = "returned"
               /\ UNCHANGED wkSeen
          ELSE /\ events' = Append(events, Ev("get", 0))
               /\ wkSeen' = wkSeen \cup {r}
               /\ wkPc' = IF r \notin StatusCodes /\ ~WkCaught(r) THEN "raised"
                          ELSE IF WkSleepNeeded(wkAttempt, wkMax) THEN "sleep"
                          ELSE "for"
               /\ UNCHANGED wkRet
    /\ UNCHANGED <<wkMax, wkAttempt, notWake>>
    /\ UNCHANGED clVars
    /\ UNCHANGED auxVars

\* await asyncio.sleep(wait_seconds)
WkSleep ==
    /\ wkPc = "sleep"
    /\ events' = Append(events, Ev("sleep", 0))
    /\ wkPc' = "for"
    /\ UNCHANGED <<wkMax, wkAttempt, wkRet, wkSeen, notWake>>
    /\ UNCHANGED clVars
    /\ UNCHANGED auxVars

WakeUpServer == WkNextAttempt \/ WkExhausted \/ WkGet \/ WkSleep

\* -------------------------------------------------------------- reconnect
RcShouldCleanup_Never(s) == FALSE

\* `if old_session:`
RcShouldCleanup(s) == s # None

\* the previous session is left as it is
RcCleanupOld_Skipped ==
    /\ rcPc = "start"
    /\ rcPc' = "health"
    /\ UNCHANGED <<clients, events, old_session, rcRet, connVars, wakeVars,
                   loopVars, ctVars, clVars>>
    /\ UNCHANGED auxVars

\* if old_session: try: await old_session.cleanup()
RcCleanupOld ==
    /\ rcPc = "start"
    /\ IF RcShouldCleanup(old_session)
       THEN /\ CleanupCall(old_session)
            /\ events' = Append(events, Ev("cleanup", old_session.client))
            /\ rcPc' = "await_cleanup"
       ELSE /\ rcPc' = "health"
            /\ UNCHANGED <<clients, events, clVars>>
    /\ UNCHANGED <<old_session, rcRet, connVars, wakeVars, loopVars, ctVars>>
    /\ UNCHANGED auxVars

\* cleanup is back; `except Exception: pass` takes whatever it raised
RcCleanupDone ==
    /\ rcPc = "await_cleanup" /\ clPc \in {"returned", "raised"}
    /\ CleanupTaken
    /\ rcPc' = "health"
    /\ UNCHANGED <<clients, events, old_session, rcRet, connVars, wakeVars,
                   loopVars, ctVars>>
    /\ UNCHANGED auxVars

\* the probe is made whether or not a health URL is set
RcWake_AlwaysProbes ==
    /\ rcPc = "health"
    /\ wkPc' = "for"
    /\ wkMax' = RECONNECT_WAKE_ATTEMPTS
    /\ wkAttempt' = 0
    /\ wkRet' = FALSE
    /\ wkSeen' = {}
    /\ rcPc' = "await_wake"
    /\ UNCHANGED <<clients, events, old_session, rcRet, connVars, loopVars, ctVars,
                   clVars>>
    /\ UNCHANGED auxVars

\* if config.MCP_HEALTH_URL: is_awake = await wake_up_server(url, 6, 5)
RcWake ==
    /\ rcPc = "health"
    /\ IF healthUrl
       THEN /\ wkPc' = "for"
            /\ wkMax' = RECONNECT_WAKE_ATTEMPTS
            /\ wkAttempt' = 0
            /\ wkRet' = FALSE
            /\ wkSeen' = {}
            /\ rcPc' = "await_wake"
       ELSE /\ rcPc' = "connect"
            /\ UNCHANGED wakeVars
    /\ UNCHANGED <<clients, events, old_session, rcRet, connVars, loopVars, ctVars>>
    /\ UNCHANGED clVars
    /\ UNCHANGED auxVars

\* a failed probe is made again
RcWakeResult_Retries ==
    /\ rcPc = "await_wake" /\ wkPc = "returned"
    /\ wkPc' = "idle" /\ wkMax' = 0 /\ wkAttempt' = 0 /\ wkRet' = FALSE
    /\ wkSeen' = {}
    /\ rcPc' = IF ~wkRet THEN "health" ELSE "settle"
    /\ UNCHANGED <<clients, events, old_session, rcRet, connVars, loopVars, ctVars,
                   clVars>>
    /\ UNCHANGED auxVars

\* the probe's result is not looked at
RcWakeResult_IgnoresFailure ==
    /\ rcPc = "await_wake" /\ wkPc = "returned"
    /\ wkPc' = "idle" /\ wkMax' = 0 /\ wkAttempt' = 0 /\ wkRet' = FALSE
    /\ wkSeen' = {}
    /\ rcPc' = "settle"
    /\ UNCHANGED <<clients, events, old_session, rcRet, connVars, loopVars, ctVars,
                   clVars>>
    /\ UNCHANGED auxVars

\* if not is_awake: return None, None
RcWakeResult ==
    /\ rcPc = "await_wake" /\ wkPc = "returned"
    /\ wkPc' = "idle" /\ wkMax' = 0 /\ wkAttempt' = 0 /\ wkRet' = FALSE
    /\ wkSeen' = {}
    /\ IF ~wkRet
       THEN /\ rcRet' = [session |-> None, tools |-> NoneTools]
            /\ rcPc' = "returned"
       ELSE /\ rcPc' = "settle"
            /\ UNCHANGED rcRet
    /\ UNCHANGED <<clients, events, old_session, connVars, loopVars, ctVars>>
    /\ UNCHANGED clVars
    /\ UNCHANGED auxVars

\* the connection is attempted right after the probe
RcSettle_NoDelay ==
    /\ rcPc = "settle"
    /\ rcPc' = "connect"
    /\ UNCHANGED <<clients, events, old_session, rcRet, connVars, wakeVars, loopVars,
                   ctVars, clVars, auxVars>>

\* await asyncio.sleep(5)
RcSettle ==
    /\ rcPc = "settle"
    /\ events' = Append(events, Ev("settle", 0))
    /\ rcPc' = "connect"
    /\ UNCHANGED <<clients, old_session, rcRet, connVars, wakeVars, loopVars, ctVars>>
    /\ UNCHANGED clVars
    /\ UNCHANGED auxVars

\* mcp_session, tools = await connect_and_list_tools(max_attempts=3, wait_seconds=5)
RcConnect ==
    /\ rcPc = "connect"
    /\ fn' = "connect_and_list_tools"
    /\ cPc' = "for"
    /\ max_attempts' = RECONNECT_CONNECT_ATTEMPTS
    /\ attempt' = 0
    /\ client' = NoClient
    /\ cal_mcp_session' = None
    /\ cErr' = ""
    /\ cRet' = [session |-> None, tools |-> NoneTools]
    /\ shown' = {}
    /\ rcPc' = "await_cal"
    /\ UNCHANGED <<clients, events, old_session, rcRet, wakeVars, loopVars, ctVars>>
    /\ UNCHANGED clVars
    /\ UNCHANGED auxVars

\* if not mcp_session: return None, None ... return mcp_session, tools
RcConnectResult ==
    /\ rcPc = "await_cal" /\ cPc = "returned"
    /\ rcRet' = IF cRet.session = None
                THEN [session |-> None, tools |-> NoneTools]
                ELSE cRet
    /\ rcPc' = "returned"
    /\ fn' = "" /\ cPc' = "idle" /\ max_attempts' = 0 /\ attempt' = 0
    /\ client' = NoClient /\ cal_mcp_session' = None /\ cErr' = ""
    /\ shown' = {}
    /\ cRet' = [session |-> None, tools |-> NoneTools]
    /\ UNCHANGED <<clients, events, old_session, wakeVars, loopVars, ctVars>>
    /\ UNCHANGED clVars
    /\ UNCHANGED auxVars

Reconnect ==
    \/ RcCleanupOld \/ RcCleanupDone \/ RcWake \/ RcWakeResult \/ RcSettle \/ RcConnect
    \/ RcConnectResult

\* -------------------------------------------------------------- call_tool
notCt == <<clients, events, connVars, wakeVars, rcVars, loopVars, clVars, last_outcome>>

\* tool_task = asyncio.create_task(mcp_session.call_tool(tool.name, params))
\* esc_task = asyncio.create_task(_wait_for_escape())
CtCreateTasks ==
    /\ ctPc = "start"
    /\ tool_task' = "pending"
    /\ esc_task' = "pending"
    /\ ctPc' = "wait"
    /\ UNCHANGED <<ctSession, ctOutcome, settled, notCt>>
    /\ UNCHANGED auxVars

\* MCPSession.call_tool finishes: session.call_tool returned a result or raised
ToolTaskSettles ==
    /\ ctPc = "wait" /\ tool_task = "pending"
    /\ tool_task' \in {"result", "exception"}
    /\ settled' = Append(settled, "tool")
    /\ UNCHANGED <<ctPc, ctSession, esc_task, ctOutcome, notCt>>
    /\ UNCHANGED auxVars

\* _wait_for_escape finishes: ESC was read, or the terminal calls raised
EscTaskSettles ==
    /\ ctPc = "wait" /\ esc_task = "pending"
    /\ esc_task' \in {"result", "exception"}
    /\ settled' = Append(settled, "esc")
    /\ UNCHANGED <<ctPc, ctSession, tool_task, ctOutcome, notCt>>
    /\ UNCHANGED auxVars

\* what `await task` gives after task.cancel(): CancelledError, or another
\* exception raised while the task unwinds
CancelOutcomes == {"cancelled", "cancel_raised"}

\* the pending task is left running
AfterCancel_NotAwaited(task, r) == task

\* for task in pending: task.cancel(); try: await task
\* except asyncio.CancelledError: pass
AfterCancel(task, r) == IF task = "pending" THEN r ELSE task

\* a task that was in `done` when asyncio.wait returned
InDone(task) == task \in {"result", "exception"}

\* the invocation is looked at before the watcher
Outcome_ToolFirst(tool, esc) ==
    IF "cancel_raised" \in {tool, esc} THEN "failed"
    ELSE IF tool = "exception" THEN "failed"
    ELSE IF tool = "result" THEN "completed"
    ELSE "cancelled"

\* what call_tool reports, from the two tasks after the cancel loop: an
\* exception out of `await task` goes to `except Exception`; then
\* `if esc_task in done: return`; then tool_task.result() returns or re-raises
\* into `except Exception`
Outcome(tool, esc) ==
    IF "cancel_raised" \in {tool, esc} THEN "failed"
    ELSE IF InDone(esc) THEN "cancelled"
    ELSE IF tool = "exception" THEN "failed"
    ELSE "completed"

\* on a cancelled call the session is cleaned up as well
CtWaitReturns_ClosesOnCancel ==
    /\ ctPc = "wait"
    /\ tool_task # "pending" \/ esc_task # "pending"
    /\ \E r \in CancelOutcomes :
          /\ tool_task' = AfterCancel(tool_task, r)
          /\ esc_task' = AfterCancel(esc_task, r)
    /\ ctOutcome' = Outcome(tool_task', esc_task')
    /\ clients' = IF ctOutcome' = "cancelled" THEN Exited(ctSession.client)
                  ELSE clients
    /\ ctPc' = "returned"
    /\ UNCHANGED <<ctSession, settled, events, connVars, wakeVars, rcVars,
                   loopVars, clVars, last_outcome>>
    /\ UNCHANGED auxVars

\* done, pending = await asyncio.wait({tool_task, esc_task}, FIRST_COMPLETED);
\* every pending task is cancelled and awaited; then the outcome is reported
\* and call_tool returns
CtWaitReturns ==
    /\ ctPc = "wait"
    /\ tool_task # "pending" \/ esc_task # "pending"
    /\ \E r \in CancelOutcomes :
          /\ tool_task' = AfterCancel(tool_task, r)
          /\ esc_task' = AfterCancel(esc_task, r)
    /\ ctOutcome' = Outcome(tool_task', esc_task')
    /\ ctPc' = "returned"
    /\ UNCHANGED <<ctSession, settled, notCt>>
    /\ UNCHANGED auxVars

CallTool == CtCreateTasks \/ ToolTaskSettles \/ EscTaskSettles \/ CtWaitReturns

\* ----------------------------------------------------- interactive_session
\* await reconnect(s): a fresh frame
StartReconnect(s) ==
    /\ rcPc' = "start"
    /\ old_session' = s
    /\ rcRet' = [session |-> None, tools |-> NoneTools]
    /\ events' = <<>>

\* listener_task.cancel() without the await: the task is only asked to stop
CancelAndAwait_NotAwaited(task) == task

\* listener_task.cancel(); try: await listener_task; except CancelledError: pass
\* When the await is over the task is done, whatever the await raised.
CancelAndAwait(task) == "done"

\* what the await of the cancelled listener does: CancelledError is passed over,
\* any other exception the task ended with (termios.error out of tcgetattr or
\* out of the tcsetattr of its finally block) is raised to the caller
AwaitOutcomes == {"ok", "raise"}

\* listen_for_toggle returns by itself: no termios, or stdin is not a terminal
ListenerReturns ==
    /\ listener_task = "running"
    /\ listener_task' = "done"
    /\ UNCHANGED <<clients, events, connVars, wakeVars, rcVars, ctVars, pc,
                   mcp_session, tools, selected_tool, healthUrl, settings, reconnects, obtained>>
    /\ UNCHANGED clVars
    /\ UNCHANGED auxVars

\* only the server URL is looked at
validate_config_UrlOnly(url, token) == url

\* validate_config(): if not MCP_SERVER_URL: return False;
\* if not MCP_TOKEN: return False; return True
validate_config(url, token) == url /\ token

\* how run_first_time_setup() ends.  It insists on a server URL and a token
\* and takes an optional health URL; when save_config succeeds reload_config()
\* reads all settings back, when it fails nothing is reloaded; an input() may
\* raise (end of input).
WizardOutcomes == {"saved", "save_failed", "raise"}

\* the listener flips config.VERBOSE on a 'v' key while the coroutine that
\* started it is waiting in an await
ListenerToggles ==
    /\ listener_task = "running"
    /\ pc \in {"await_initial", "tc_await_wake", "tc_settle", "tc_await_cal"}
    /\ VERBOSE' = ~VERBOSE
    /\ UNCHANGED <<clients, events, connVars, wakeVars, rcVars, ctVars, clVars, pc,
                   mcp_session, tools, selected_tool, listener_task, healthUrl,
                   MCP_SERVER_URL, MCP_TOKEN, reconnects, obtained>>
    /\ UNCHANGED auxVars

\* if not validate_config(): on a first run (no config file) the wizard, else
\* return; after the wizard validate_config() again, return if it still fails
IsValidateConfig ==
    /\ pc = "start"
    /\ IF validate_config(MCP_SERVER_URL, MCP_TOKEN)
       THEN /\ pc' = "connect"
            /\ UNCHANGED <<healthUrl, settings>>
       ELSE \E is_first_run \in BOOLEAN, w \in WizardOutcomes :
               IF ~is_first_run \/ w = "raise"
               THEN /\ pc' = "finally"
                    /\ UNCHANGED <<healthUrl, settings>>
               ELSE /\ IF w = "saved"
                       THEN /\ MCP_SERVER_URL' = TRUE /\ MCP_TOKEN' = TRUE
                            /\ healthUrl' \in BOOLEAN
                            /\ UNCHANGED VERBOSE
                       ELSE UNCHANGED <<healthUrl, settings>>
                    /\ pc' = IF validate_config(MCP_SERVER_URL', MCP_TOKEN')
                             THEN "connect" ELSE "finally"
    /\ UNCHANGED <<clients, events, connVars, wakeVars, rcVars, ctVars,
                   mcp_session, tools, selected_tool, listener_task, reconnects,
                   obtained>>
    /\ UNCHANGED clVars
    /\ UNCHANGED auxVars

\* mcp_session, tools = await reconnect(None)
IsInitialConnect ==
    /\ pc = "connect"
    /\ StartReconnect(None)
    /\ pc' = "await_initial"
    /\ UNCHANGED <<clients, connVars, wakeVars, ctVars, mcp_session, tools,
                   selected_tool, listener_task, healthUrl, settings, reconnects, obtained>>
    /\ UNCHANGED clVars
    /\ UNCHANGED auxVars

\* if not mcp_session: return; if not tools: return; listener_task.cancel() and
\* await it (the task is done, cancelled or not); then the tool list is shown
IsInitialResult ==
    /\ pc = "await_initial" /\ rcPc = "returned"
    /\ rcPc' = "idle" /\ old_session' = None
    /\ rcRet' = [session |-> None, tools |-> NoneTools]
    /\ events' = <<>>
    /\ LET K == Reachable(rcRet.session) IN
          /\ clients' = Collected(K)
          /\ mcp_session' = Renumbered(rcRet.session, K)
          /\ tools' = [rcRet.tools EXCEPT !.from = Rank(@, K)]
          /\ obtained' = IF rcRet.session = None THEN obtained
                         ELSE obtained \cup {Rank(rcRet.session.client, K)}
    /\ IF rcRet.session # None /\ Truthy(rcRet.tools)
       THEN /\ listener_task' = CancelAndAwait(listener_task)
            /\ \E r \in AwaitOutcomes :
                  pc' = IF r = "ok" THEN "list_prompt" ELSE "finally"
       ELSE /\ pc' = "finally"
            /\ UNCHANGED listener_task
    /\ UNCHANGED <<connVars, wakeVars, ctVars, selected_tool, healthUrl, settings,
                   reconnects>>
    /\ UNCHANGED clVars
    /\ UNCHANGED auxVars

\* choice in ("quit", "q", "exit"): break
IsListQuit ==
    /\ pc = "list_prompt"
    /\ pc' = "finally"
    /\ UNCHANGED <<clients, events, connVars, wakeVars, rcVars, ctVars,
                   mcp_session, tools, selected_tool, listener_task, healthUrl, settings,
                   reconnects, obtained>>
    /\ UNCHANGED clVars
    /\ UNCHANGED auxVars

\* handle_config_command() returned True after an edit: each of the three
\* settings may have been set or cleared, and reload_config() has read all
\* of them and the verbose flag back
ConfigEdited ==
    /\ reconnects < MaxReconnects
    /\ reconnects' = reconnects + 1
    /\ healthUrl' \in BOOLEAN
    /\ MCP_SERVER_URL' \in BOOLEAN /\ MCP_TOKEN' \in BOOLEAN
    /\ VERBOSE' \in BOOLEAN
    /\ StartReconnect(mcp_session)

\* choice == "c": if changed: new_session, new_tools = await reconnect(mcp_session)
IsListConfig ==
    /\ pc = "list_prompt"
    /\ ConfigEdited
    /\ pc' = "await_list_reconnect"
    /\ UNCHANGED <<clients, connVars, wakeVars, ctVars, mcp_session, tools,
                   selected_tool, listener_task, obtained>>
    /\ UNCHANGED clVars
    /\ UNCHANGED auxVars

\* the list on screen is kept when the session is replaced
NewTools_KeepsOld(old, new) == old

\* tools = new_tools
NewTools(old, new) == new

\* if new_session: mcp_session = new_session; tools = new_tools
\* else: print "Reconnection failed. Keeping current connection."
TakeReconnectResult ==
    /\ rcPc = "returned"
    /\ rcPc' = "idle" /\ old_session' = None
    /\ rcRet' = [session |-> None, tools |-> NoneTools]
    /\ events' = <<>>
    /\ LET K == Reachable(rcRet.session) IN
          /\ clients' = Collected(K)
          /\ selected_tool' = [selected_tool EXCEPT !.from = Rank(@, K)]
          /\ IF rcRet.session # None
             THEN /\ mcp_session' = Renumbered(rcRet.session, K)
                  /\ tools' = [NewTools(tools, rcRet.tools) EXCEPT !.from = Rank(@, K)]
                  /\ obtained' = {Rank(c, K) : c \in obtained \cup {rcRet.session.client}}
             ELSE /\ mcp_session' = Renumbered(mcp_session, K)
                  /\ tools' = [tools EXCEPT !.from = Rank(@, K)]
                  /\ obtained' = {Rank(c, K) : c \in obtained}

\* ... continue
IsListReconnectResult ==
    /\ pc = "await_list_reconnect"
    /\ TakeReconnectResult
    /\ pc' = "list_prompt"
    /\ UNCHANGED <<connVars, wakeVars, ctVars, listener_task, healthUrl, settings, reconnects>>
    /\ UNCHANGED clVars
    /\ UNCHANGED auxVars

\* choice == "v": _toggle_verbose(), in the tool list and in the tool view; the
\* same through "c" and setting 4, which reports no change
IsToggleVerbose ==
    /\ pc \in {"list_prompt", "tool_prompt"}
    /\ VERBOSE' = ~VERBOSE
    /\ UNCHANGED <<clients, events, connVars, wakeVars, rcVars, ctVars, clVars, pc,
                   mcp_session, tools, selected_tool, listener_task, healthUrl,
                   MCP_SERVER_URL, MCP_TOKEN, reconnects, obtained>>
    /\ UNCHANGED auxVars

\* tool_num = int(choice); if 1 <= tool_num <= len(tools):
\* selected_tool = tools[tool_num - 1]
IsSelectTool ==
    /\ pc = "list_prompt"
    /\ \E tool_num \in 1..tools.n : selected_tool' = Tool(tools.from, tool_num)
    /\ pc' = "tool_prompt"
    /\ UNCHANGED <<clients, events, connVars, wakeVars, rcVars, ctVars,
                   mcp_session, tools, listener_task, healthUrl, settings, reconnects,
                   obtained>>
    /\ UNCHANGED clVars
    /\ UNCHANGED auxVars

\* tool_choice in ("r", "run", "2"): await call_tool(mcp_session, selected_tool, params)
IsToolRun ==
    /\ pc = "tool_prompt"
    /\ ctPc' = "start"
    /\ ctSession' = mcp_session
    /\ ctOutcome' = ""
    /\ tool_task' = "none" /\ esc_task' = "none"
    /\ settled' = <<>>
    /\ pc' = "await_call"
    /\ UNCHANGED <<clients, events, connVars, wakeVars, rcVars, mcp_session,
                   tools, selected_tool, listener_task, healthUrl, settings, reconnects,
                   obtained, last_outcome>>
    /\ UNCHANGED clVars
    /\ UNCHANGED auxVars

\* a failed invocation ends the loop
AfterCall_StopsOnFailure(outcome) ==
    IF outcome = "failed" THEN "finally" ELSE "tool_prompt"

\* `await call_tool(...)` is followed by nothing in its branch: whatever the
\* call printed, the inner `while True` prompts again
AfterCall(outcome) == "tool_prompt"

\* call_tool returned: the tool view prompts again
IsToolRunReturns ==
    /\ pc = "await_call" /\ ctPc = "returned"
    /\ ctPc' = "idle" /\ ctSession' = None /\ ctOutcome' = ""
    /\ tool_task' = "none" /\ esc_task' = "none"
    /\ settled' = <<>>
    /\ last_outcome' = ctOutcome
    /\ pc' = AfterCall(ctOutcome)
    /\ UNCHANGED <<clients, events, connVars, wakeVars, rcVars, mcp_session, tools,
                   selected_tool, listener_task, healthUrl, settings, reconnects, obtained>>
    /\ UNCHANGED clVars
    /\ UNCHANGED auxVars

\* tool_choice in ("b", "back", "3"): break
IsToolBack ==
    /\ pc = "tool_prompt"
    /\ pc' = "list_prompt"
    /\ UNCHANGED <<clients, events, connVars, wakeVars, rcVars, ctFrame,
                   mcp_session, tools, selected_tool, listener_task, healthUrl, settings,
                   reconnects, obtained>>
    /\ last_outcome' = ""
    /\ UNCHANGED clVars
    /\ UNCHANGED auxVars

\* tool_choice in ("q", "quit", "exit"): running = False; break
IsToolQuit ==
    /\ pc = "tool_prompt"
    /\ pc' = "finally"
    /\ UNCHANGED <<clients, events, connVars, wakeVars, rcVars, ctFrame,
                   mcp_session, tools, selected_tool, listener_task, healthUrl, settings,
                   reconnects, obtained>>
    /\ last_outcome' = ""
    /\ UNCHANGED clVars
    /\ UNCHANGED auxVars

\* tool_choice == "c": if changed: ... = await reconnect(mcp_session)
IsToolConfig ==
    /\ pc = "tool_prompt"
    /\ ConfigEdited
    /\ pc' = "await_tool_reconnect"
    /\ UNCHANGED <<clients, connVars, wakeVars, ctFrame, mcp_session, tools,
                   selected_tool, listener_task, obtained>>
    /\ last_outcome' = ""
    /\ UNCHANGED clVars
    /\ UNCHANGED auxVars

\* the tool view stays open on the tool selected before the reconnect
AfterToolReconnect_StaysInView == "tool_prompt"

\* break  # Back to tool list since tools may have changed
AfterToolReconnect == "list_prompt"

\* ... break  # Back to tool list since tools may have changed
IsToolReconnectResult ==
    /\ pc = "await_tool_reconnect"
    /\ TakeReconnectResult
    /\ pc' = AfterToolReconnect
    /\ UNCHANGED <<connVars, wakeVars, ctVars, listener_task, healthUrl, settings, reconnects>>
    /\ UNCHANGED clVars
    /\ UNCHANGED auxVars

\* an exception out of a prompt (EOFError, KeyboardInterrupt) unwinds the loop
\* into the finally block
IsPromptRaises ==
    /\ pc \in {"list_prompt", "tool_prompt"}
    /\ pc' = "finally"
    /\ UNCHANGED <<clients, events, connVars, wakeVars, rcVars, ctFrame,
                   mcp_session, tools, selected_tool, listener_task, healthUrl, settings,
                   reconnects, obtained>>
    /\ last_outcome' = ""
    /\ UNCHANGED clVars
    /\ UNCHANGED auxVars

\* finally: if not listener_task.done(): cancel and await it;
\* if mcp_session: await mcp_session.cleanup()
\* An exception out of the await leaves the function before the cleanup.
IsFinally ==
    /\ pc = "finally"
    /\ listener_task' = IF listener_task = "done" THEN listener_task
                        ELSE CancelAndAwait(listener_task)
    /\ \E r \in (IF listener_task = "done" THEN {"ok"} ELSE AwaitOutcomes) :
          IF r = "raise"
          THEN /\ pc' = "listener_raised"
               /\ UNCHANGED <<clients, clVars>>
          ELSE IF mcp_session # None
          THEN /\ CleanupCall(mcp_session)
               /\ pc' = "await_cleanup"
          ELSE /\ pc' = "done"
               /\ UNCHANGED <<clients, clVars>>
    /\ UNCHANGED <<events, connVars, wakeVars, rcVars, ctVars, mcp_session,
                   tools, selected_tool, healthUrl, settings, reconnects, obtained>>
    /\ UNCHANGED auxVars

\* cleanup is back: the function ends, or what cleanup raised leaves it
IsFinallyCleanupDone ==
    /\ pc = "await_cleanup" /\ clPc \in {"returned", "raised"}
    /\ CleanupTaken
    /\ pc' = IF clPc = "raised" THEN "raised" ELSE "done"
    /\ UNCHANGED <<clients, events, connVars, wakeVars, rcVars, ctVars,
                   mcp_session, tools, selected_tool, listener_task, healthUrl, settings,
                   reconnects, obtained>>
    /\ UNCHANGED auxVars

InteractiveSession ==
    \/ ListenerReturns \/ ListenerToggles \/ IsToggleVerbose \/ IsValidateConfig \/ IsInitialConnect \/ IsInitialResult
    \/ IsListQuit \/ IsListConfig \/ IsListReconnectResult \/ IsSelectTool
    \/ IsToolRun \/ IsToolRunReturns \/ IsToolBack \/ IsToolQuit \/ IsToolConfig
    \/ IsToolReconnectResult \/ IsPromptRaises \/ IsFinally
    \/ IsFinallyCleanupDone

\* ------------------------------------------------------- test_connectivity
\* the locals listener_task, mcp_session and tools of test_connectivity are
\* kept in the variables of the same names; pc tells the two functions apart
notTc == <<rcVars, ctVars, selected_tool, healthUrl, settings, reconnects>>

\* if config.MCP_HEALTH_URL: is_awake = await wake_up_server(url, 6, 5)
TcWake ==
    /\ pc = "tc_start"
    /\ IF healthUrl
       THEN /\ wkPc' = "for"
            /\ wkMax' = RECONNECT_WAKE_ATTEMPTS
            /\ wkAttempt' = 0
            /\ wkRet' = FALSE
            /\ wkSeen' = {}
            /\ pc' = "tc_await_wake"
       ELSE /\ pc' = "tc_connect"
            /\ UNCHANGED wakeVars
    /\ UNCHANGED <<clients, events, connVars, clVars, mcp_session, tools,
                   listener_task, obtained, notTc>>
    /\ UNCHANGED auxVars

\* if not is_awake: return
TcWakeResult ==
    /\ pc = "tc_await_wake" /\ wkPc = "returned"
    /\ wkPc' = "idle" /\ wkMax' = 0 /\ wkAttempt' = 0 /\ wkRet' = FALSE
    /\ wkSeen' = {}
    /\ pc' = IF ~wkRet THEN "tc_finally" ELSE "tc_settle"
    /\ UNCHANGED <<clients, events, connVars, clVars, mcp_session, tools,
                   listener_task, obtained, notTc>>
    /\ UNCHANGED auxVars

\* await asyncio.sleep(5)
TcSettle ==
    /\ pc = "tc_settle"
    /\ events' = Append(events, Ev("settle", 0))
    /\ pc' = "tc_connect"
    /\ UNCHANGED <<clients, connVars, wakeVars, clVars, mcp_session, tools,
                   listener_task, obtained, notTc>>
    /\ UNCHANGED auxVars

\* mcp_session, tools = await connect_and_list_tools(max_attempts=3, wait_seconds=5)
TcConnect ==
    /\ pc = "tc_connect"
    /\ fn' = "connect_and_list_tools"
    /\ cPc' = "for"
    /\ max_attempts' = RECONNECT_CONNECT_ATTEMPTS
    /\ attempt' = 0
    /\ client' = NoClient
    /\ cal_mcp_session' = None
    /\ cErr' = ""
    /\ cRet' = [session |-> None, tools |-> NoneTools]
    /\ shown' = {}
    /\ pc' = "tc_await_cal"
    /\ UNCHANGED <<clients, events, wakeVars, clVars, mcp_session, tools,
                   listener_task, obtained, notTc>>
    /\ UNCHANGED auxVars

\* if not mcp_session: return; otherwise the number of tools is printed
TcConnectResult ==
    /\ pc = "tc_await_cal" /\ cPc = "returned"
    /\ mcp_session' = cRet.session
    /\ tools' = cRet.tools
    /\ obtained' = IF cRet.session = None THEN obtained
                   ELSE obtained \cup {cRet.session.client}
    /\ fn' = "" /\ cPc' = "idle" /\ max_attempts' = 0 /\ attempt' = 0
    /\ client' = NoClient /\ cal_mcp_session' = None /\ cErr' = ""
    /\ shown' = {}
    /\ cRet' = [session |-> None, tools |-> NoneTools]
    /\ pc' = "tc_finally"
    /\ UNCHANGED <<clients, events, wakeVars, clVars, listener_task, notTc>>
    /\ UNCHANGED auxVars

\* finally: listener_task.cancel() and await it;
\* if mcp_session: await mcp_session.cleanup()
TcFinally ==
    /\ pc = "tc_finally"
    /\ listener_task' = CancelAndAwait(listener_task)
    /\ \E r \in AwaitOutcomes :
          IF r = "raise"
          THEN /\ pc' = "listener_raised"
               /\ UNCHANGED <<clients, clVars>>
          ELSE IF mcp_session # None
          THEN /\ CleanupCall(mcp_session)
               /\ pc' = "tc_await_cleanup"
          ELSE /\ pc' = "done"
               /\ UNCHANGED <<clients, clVars>>
    /\ UNCHANGED <<events, connVars, wakeVars, mcp_session, tools, obtained, notTc>>
    /\ UNCHANGED auxVars

\* cleanup is back: the function ends, or what cleanup raised leaves it
TcFinallyCleanupDone ==
    /\ pc = "tc_await_cleanup" /\ clPc \in {"returned", "raised"}
    /\ CleanupTaken
    /\ pc' = IF clPc = "raised" THEN "raised" ELSE "done"
    /\ UNCHANGED <<clients, events, connVars, wakeVars, mcp_session, tools,
                   listener_task, obtained, notTc>>
    /\ UNCHANGED auxVars

TestConnectivity ==
    \/ TcWake \/ TcWakeResult \/ TcSettle \/ TcConnect \/ TcConnectResult
    \/ TcFinally \/ TcFinallyCleanupDone

\* ------------------------------------------------- parse_parameter_value
\* A str is a sequence of one-character strings.
\* the characters str.strip() removes, of those that occur in the inputs
Whitespace == {" ", "\t"}

Digits == {"0", "1", "2"}

\* the upper-case form of the letters that occur in the inputs
UpperOf ==
    [c \in {"a", "b", "e", "f", "l", "m", "n", "o", "r", "s", "t", "u", "y"} |->
        CASE c = "a" -> "A" [] c = "b" -> "B" [] c = "e" -> "E" [] c = "f" -> "F"
          [] c = "l" -> "L" [] c = "m" -> "M" [] c = "n" -> "N" [] c = "o" -> "O"
          [] c = "r" -> "R" [] c = "s" -> "S" [] c = "t" -> "T" [] c = "u" -> "U"
          [] c = "y" -> "Y"]

\* str.lower() that leaves upper-case letters as they are
LowerChar_Identity(c) == c

\* str.lower() on one character: an upper-case letter becomes its lower-case
\* form, every other character stays
LowerChar(c) ==
    IF \E l \in DOMAIN UpperOf : UpperOf[l] = c
    THEN CHOOSE l \in DOMAIN UpperOf : UpperOf[l] = c
    ELSE c

\* value_str.lower()
lower(str) == [i \in 1..Len(str) |-> LowerChar(str[i])]

RECURSIVE lstrip(_)
lstrip(str) ==
    IF str # <<>> /\ Head(str) \in Whitespace THEN lstrip(Tail(str)) ELSE str

RECURSIVE rstrip(_)
rstrip(str) ==
    IF str # <<>> /\ str[Len(str)] \in Whitespace
    THEN rstrip(SubSeq(str, 1, Len(str) - 1))
    ELSE str

\* value_str.strip()
strip(str) == rstrip(lstrip(str))

\* Python values: None, a bool, an int, a float, a str, or an exception raised
Val(kind, b, n, str) == [kind |-> kind, b |-> b, n |-> n, str |-> str]
PyNone == Val("None", FALSE, 0, <<>>)
PyBool(b) == Val("bool", b, 0, <<>>)
PyInt(n) == Val("int", FALSE, n, <<>>)
PyFloat(n) == Val("float", FALSE, n, <<>>)
PyStr(str) == Val("str", FALSE, 0, str)
Raises(e) == Val(e, FALSE, 0, <<>>)

\* no call made yet
NotCalled == Val("", FALSE, 0, <<>>)

IsDigits(str) == str # <<>> /\ \A i \in DOMAIN str : str[i] \in Digits

DigitValue(c) == CASE c = "0" -> 0 [] c = "1" -> 1 [] c = "2" -> 2

\* the number a string of decimal digits stands for
RECURSIVE Decimal(_)
Decimal(str) ==
    IF str = <<>> THEN 0
    ELSE 10 * Decimal(SubSeq(str, 1, Len(str) - 1)) + DigitValue(str[Len(str)])

\* int(value_str): surrounding whitespace is allowed; of the inputs only the
\* digit strings are integers, everything else raises ValueError
int(str) ==
    IF IsDigits(strip(str)) THEN PyInt(Decimal(strip(str))) ELSE Raises("ValueError")

\* float(value_str), the same on the inputs
float(str) ==
    IF IsDigits(strip(str)) THEN PyFloat(Decimal(strip(str))) ELSE Raises("ValueError")

\* json.loads(value_str): whitespace around the value is allowed, the literals
\* are case-sensitive, a number has no leading zero
json_loads(str) ==
    LET t == strip(str) IN
    CASE t = <<"t", "r", "u", "e">> -> PyBool(TRUE)
      [] t = <<"f", "a", "l", "s", "e">> -> PyBool(FALSE)
      [] IsDigits(t) /\ (Len(t) = 1 \/ t[1] # "0") -> PyInt(Decimal(t))
      [] OTHER -> Raises("JSONDecodeError")

\* the tuple ("true", "t", "yes", "y", "1")
BooleanTrue ==
    {<<"t", "r", "u", "e">>, <<"t">>, <<"y", "e", "s">>, <<"y">>, <<"1">>}

\* def parse_parameter_value(value_str, param_type)
parse_parameter_value(str, type) ==
    IF strip(str) = <<>> THEN PyNone
    ELSE CASE type = "boolean" -> PyBool(lower(str) \in BooleanTrue)
           [] type = "integer" -> int(str)
           [] type = "number" -> float(str)
           [] type \in {"object", "array"} -> json_loads(str)
           [] OTHER -> PyStr(str)

\* the call
ParseParameterValue ==
    /\ parsed = NotCalled
    /\ parsed' = parse_parameter_value(value_str, param_type)
    /\ UNCHANGED <<clients, events, connVars, wakeVars, rcVars, loopVars, ctVars,
                   clVars, value_str, param_type, errVars, gtpVars, ttyVars>>

\* ------------------------------------------------------------ the inputs
\* the words typed, in lower case
Words ==
    {<<>>, <<"t", "r", "u", "e">>, <<"t">>, <<"y", "e", "s">>, <<"y">>, <<"1">>,
     <<"f", "a", "l", "s", "e">>, <<"f">>, <<"n", "o">>, <<"n">>, <<"0">>,
     <<"2">>, <<"1", "0">>, <<"m", "a", "y", "b", "e">>, <<"o", "n">>}

\* typed in lower case, in upper case, or with a capital first letter
Cases == {"lower", "upper", "title"}

UpperChar(c) == IF c \in DOMAIN UpperOf THEN UpperOf[c] ELSE c

Cased(w, k) ==
    [i \in 1..Len(w) |->
        IF k = "upper" \/ (k = "title" /\ i = 1) THEN UpperChar(w[i]) ELSE w[i]]

\* nothing, a space or a tab in front of the word and behind it
Pads == {<<>>, <<" ">>, <<"\t">>}

Inputs == {l \o Cased(w, k) \o r : l \in Pads, r \in Pads, w \in Words, k \in Cases}

\* the JSON-schema types and one the function does not know
ParamTypes == {"boolean", "integer", "number", "object", "array", "string", "null"}

\* ------------------------------------------------- get_tool_parameters
\* the parameter names a schema is written with
ParamNames == {"a", "b"}

\* the declared types of the schemas tried
DeclaredTypes == {"integer", "string"}

\* `properties`, in the order of properties.items(): no name twice
PropertyLists ==
    {<<>>}
      \cup {<<[name |-> n, type |-> t]>> : n \in ParamNames, t \in DeclaredTypes}
      \cup {<<[name |-> "a", type |-> t], [name |-> "b", type |-> u]>> :
               t \in DeclaredTypes, u \in DeclaredTypes}

\* tool.inputSchema: no schema (None, or not a dict), or a dict with
\* "properties" and "required"; "required" may name any parameter
Schemas ==
    {[kind |-> "none", properties |-> <<>>, required |-> {}]}
      \cup {[kind |-> "dict", properties |-> ps, required |-> r] :
               ps \in PropertyLists, r \in SUBSET ParamNames}

\* what Prompt.ask gives back: nothing, a number, a word, a blank
Typed == {<<>>, <<"7">>, <<"x">>, <<" ">>}

\* params = {}
NoParams == [n \in {} |-> PyNone]

\* get_tool_parameters is not running
GtpIdle ==
    /\ inputSchema = [kind |-> "none", properties |-> <<>>, required |-> {}]
    /\ params = NoParams /\ gpPc = "idle" /\ gpIdx = 0 /\ gpAsked = 0

\* params[param_name] = value
Stored(d, name, value) ==
    [n \in DOMAIN d \cup {name} |-> IF n = name THEN value ELSE d[n]]

\* except (ValueError, json.JSONDecodeError)
GtpCaught(v) == v.kind \in {"ValueError", "JSONDecodeError"}

notGtp == <<clients, events, connVars, wakeVars, rcVars, loopVars, ctVars, clVars,
            errVars, ttyVars>>

\* if not tool.inputSchema or not isinstance(tool.inputSchema, dict): return params
\* properties = ...; required = ...; if not properties: return params
GtpStart ==
    /\ gpPc = "start"
    /\ IF inputSchema.kind # "dict" \/ inputSchema.properties = <<>>
       THEN gpPc' = "returned" /\ gpIdx' = 0
       ELSE gpPc' = "ask" /\ gpIdx' = 1
    /\ gpAsked' = 0
    /\ UNCHANGED <<inputSchema, params, parseVars, notGtp>>

\* the next parameter, or `return params` after the last one
GtpAdvance ==
    /\ gpAsked' = 0
    /\ IF gpIdx < Len(inputSchema.properties)
       THEN gpIdx' = gpIdx + 1 /\ gpPc' = "ask"
       ELSE gpIdx' = gpIdx /\ gpPc' = "returned"

\* the prompt is made again
GtpAgain ==
    /\ gpAsked < MaxAsks
    /\ gpAsked' = gpAsked + 1
    /\ UNCHANGED <<gpPc, gpIdx>>

\* one turn of `while True:` for param_name: value_str = Prompt.ask(...);
\* nothing typed: `continue` when required, `break` when optional; otherwise
\* value = parse_parameter_value(value_str, param_type), stored and `break`,
\* or the message "Invalid value" and the next turn when it raised
GtpAsk ==
    /\ gpPc = "ask"
    /\ LET property == inputSchema.properties[gpIdx]
           is_required == property.name \in inputSchema.required
       IN  \E typed \in Typed :
              /\ value_str' = typed
              /\ param_type' = property.type
              /\ IF typed = <<>>
                 THEN /\ parsed' = NotCalled
                      /\ UNCHANGED params
                      /\ IF is_required THEN GtpAgain ELSE GtpAdvance
                 ELSE /\ parsed' = parse_parameter_value(typed, property.type)
                      /\ IF GtpCaught(parsed')
                         THEN UNCHANGED params /\ GtpAgain
                         ELSE /\ params' = Stored(params, property.name, parsed')
                              /\ GtpAdvance
    /\ UNCHANGED <<inputSchema, notGtp>>

\* Prompt.ask raises (end of input, Ctrl-C): nothing here catches it
GtpPromptRaises ==
    /\ gpPc = "ask"
    /\ gpPc' = "raised"
    /\ UNCHANGED <<inputSchema, params, gpIdx, gpAsked, parseVars, notGtp>>

GetToolParameters == GtpStart \/ GtpAsk \/ GtpPromptRaises

\* ------------------------------- listen_for_toggle and _wait_for_escape
\* The two tasks that read keys have the same frame: fileno, isatty,
\* old_settings = termios.tcgetattr(fd), then try: tty.setcbreak(fd) and the
\* polling loop, finally: termios.tcsetattr(fd, termios.TCSADRAIN, old_settings).
KeyReaderFns == {"listen_for_toggle", "_wait_for_escape"}

\* the settings a terminal can be in when the task starts
SavedModes == {"cooked", "noecho"}

\* where the task runs: no termios module, stdin not a terminal, a terminal
Platforms == {"no_termios", "not_a_tty", "tty"}

\* what a library call on the terminal comes to
CallOutcomes == {"ok", "raise"}

\* what the polling loop meets: a 'v', an ESC, an error out of select or read
Polled == {"v", "esc", "error"}

Reader(fn_, pc_, cause, switched, restore) ==
    [fn |-> fn_, pc |-> pc_, cause |-> cause, switched |-> switched, restore |-> restore]

\* no key-reading task is looked at
TtyIdle ==
    /\ reader = Reader("", "idle", "", FALSE, "not_called")
    /\ tty_mode = "cooked" /\ old_settings = ""

notTty == <<clients, events, connVars, wakeVars, rcVars, ctVars, clVars, pc,
            mcp_session, tools, selected_tool, listener_task, healthUrl,
            MCP_SERVER_URL, MCP_TOKEN, reconnects, obtained, parseVars, errVars,
            gtpVars>>

\* `except Exception: pass` of listen_for_toggle; _wait_for_escape has none
KrSwallows(fn_) == fn_ = "listen_for_toggle"

\* how the body ends when something in it raised
KrRaisedCause(fn_) == IF KrSwallows(fn_) THEN "returned" ELSE "exception"

\* the task is cancelled before its first step: the body never runs
KrCancelledUnstarted ==
    /\ reader.pc = "start"
    /\ reader' = [reader EXCEPT !.pc = "done", !.cause = "cancelled"]
    /\ UNCHANGED <<tty_mode, old_settings, VERBOSE, notTty>>

\* import termios, tty; fd = sys.stdin.fileno(); sys.stdin.isatty();
\* old_settings = termios.tcgetattr(fd).  Without termios or without a
\* terminal listen_for_toggle returns and _wait_for_escape waits on an Event
\* nobody sets; fileno and tcgetattr are outside the try.
KrStart ==
    /\ reader.pc = "start"
    /\ \E platform \in Platforms, r \in CallOutcomes :
          IF platform # "tty"
          THEN /\ reader' = IF reader.fn = "listen_for_toggle"
                            THEN [reader EXCEPT !.pc = "done", !.cause = "returned"]
                            ELSE [reader EXCEPT !.pc = "wait_event"]
               /\ UNCHANGED old_settings
          ELSE IF r = "raise"
          THEN /\ reader' = [reader EXCEPT !.pc = "done", !.cause = "exception"]
               /\ UNCHANGED old_settings
          ELSE /\ old_settings' = tty_mode
               /\ reader' = [reader EXCEPT !.pc = "try"]
    /\ UNCHANGED <<tty_mode, VERBOSE, notTty>>

\* await asyncio.Event().wait() ends by cancellation only
KrCancelledWaiting ==
    /\ reader.pc = "wait_event"
    /\ reader' = [reader EXCEPT !.pc = "done", !.cause = "cancelled"]
    /\ UNCHANGED <<tty_mode, old_settings, VERBOSE, notTty>>

\* try: tty.setcbreak(fd)
KrSetCbreak ==
    /\ reader.pc = "try"
    /\ \E r \in CallOutcomes :
          IF r = "ok"
          THEN /\ tty_mode' = "cbreak"
               /\ reader' = [reader EXCEPT !.pc = "loop", !.switched = TRUE]
          ELSE /\ reader' = [reader EXCEPT !.pc = "finally",
                                            !.cause = KrRaisedCause(reader.fn)]
               /\ UNCHANGED tty_mode
    /\ UNCHANGED <<old_settings, VERBOSE, notTty>>

\* one turn of `while True:` that reads a key or fails.  listen_for_toggle
\* flips config.VERBOSE on 'v' and goes on; _wait_for_escape returns on ESC;
\* any other key is dropped.
KrPoll ==
    /\ reader.pc = "loop"
    /\ \E k \in Polled :
          CASE k = "error" ->
                 /\ reader' = [reader EXCEPT !.pc = "finally",
                                              !.cause = KrRaisedCause(reader.fn)]
                 /\ UNCHANGED VERBOSE
            [] k = "v" /\ reader.fn = "listen_for_toggle" ->
                 /\ VERBOSE' = ~VERBOSE
                 /\ UNCHANGED reader
            [] k = "esc" /\ reader.fn = "_wait_for_escape" ->
                 /\ reader' = [reader EXCEPT !.pc = "finally", !.cause = "returned"]
                 /\ UNCHANGED VERBOSE
            [] OTHER -> UNCHANGED <<reader, VERBOSE>>
    /\ UNCHANGED <<tty_mode, old_settings, notTty>>

\* task.cancel() while the loop is in `await asyncio.sleep(0.1)`:
\* CancelledError is no Exception, neither `except` takes it
KrCancelled ==
    /\ reader.pc = "loop"
    /\ reader' = [reader EXCEPT !.pc = "finally", !.cause = "cancelled"]
    /\ UNCHANGED <<tty_mode, old_settings, VERBOSE, notTty>>

\* the settings are put back only when the body returned
RestoreNeeded_OnReturnOnly(cause) == cause = "returned"

\* `finally:` runs however the body ended
RestoreNeeded(cause) == TRUE

\* finally: termios.tcsetattr(fd, termios.TCSADRAIN, old_settings); when the
\* call raises, the task ends with that exception and the terminal stays as
\* it is
KrFinally ==
    /\ reader.pc = "finally"
    /\ IF RestoreNeeded(reader.cause)
       THEN \E r \in CallOutcomes :
               IF r = "ok"
               THEN /\ tty_mode' = old_settings
                    /\ reader' = [reader EXCEPT !.pc = "done", !.restore = "ok"]
               ELSE /\ reader' = [reader EXCEPT !.pc = "done", !.cause = "exception",
                                                 !.restore = "raised"]
                    /\ UNCHANGED tty_mode
       ELSE /\ reader' = [reader EXCEPT !.pc = "done"]
            /\ UNCHANGED tty_mode
    /\ UNCHANGED <<old_settings, VERBOSE, notTty>>

KeyReader ==
    \/ KrCancelledUnstarted \/ KrStart \/ KrCancelledWaiting \/ KrSetCbreak
    \/ KrPoll \/ KrCancelled \/ KrFinally

\* --------------------------------------------------------- FilteredStderr
\* A text handed to write() is a sequence of pieces; a pattern occurs in it
\* when one of its pieces is the pattern.
suppress_patterns ==
    {"Error in post_writer", "Session termination failed", "httpx.HTTPStatusError",
     "streamable_http.py", "Traceback (most recent call last)", "File ", "raise ",
     "await ", "BrokenResourceError", "ClosedResourceError", "raise_for_status",
     "handle_request_async", "_handle_post_request"}

\* the five patterns of the class in forbin.py
suppress_patterns_forbin ==
    {"Error in post_writer", "Session termination failed", "httpx.HTTPStatusError",
     "streamable_http.py", "Traceback (most recent call last)"}

\* the pieces the texts written are made of
Pieces == {"Session termination failed", "File ", "traceback details", " ", "\n"}

\* the texts written: at most two pieces
Texts == {<<>>} \cup {<<a>> : a \in Pieces} \cup {<<a, b>> : a \in Pieces, b \in Pieces}

\* the pattern is looked for at the start of the text only
AnyPatternIn_StartOnly(text, patterns) == text # <<>> /\ text[1] \in patterns

\* any(pattern in text for pattern in self.suppress_patterns)
AnyPatternIn(text, patterns) == \E i \in DOMAIN text : text[i] \in patterns

\* text.strip() == ""
IsBlank(text) == \A i \in DOMAIN text : text[i] \in {" ", "\n", "\t"}

\* a blank line is a line like any other
EndsOnBlank_Never(text) == FALSE

\* `if text.strip() == "":` of a write made while suppressing: a blank line
\* ends the suppression
EndsOnBlank(text) == IsBlank(text)

\* no write made yet
NoWrite == [made |-> FALSE, tick |-> FALSE, text |-> <<>>, verbose |-> FALSE,
            forwarded |-> <<>>]

\* the record of write(text): made with config.VERBOSE as it was, and `out` is
\* what went to original_stderr.write, <<>> or <<text>>
Written(text, out) ==
    [made |-> TRUE, tick |-> ~last.tick, text |-> text, verbose |-> VERBOSE,
     forwarded |-> out]

\* Where the writes stand after a pattern line written with verbose off:
\* "open" while non-blank pattern-free writes follow it (`between` of them so
\* far), "blank_seen" when the last write was the first blank one after it,
\* "next" when the last write was the pattern-free one after that blank line.
\* A write made with verbose on ends the account.
Account(text, patterns) ==
    IF VERBOSE
    THEN episode' = "none" /\ between' = 0
    ELSE IF AnyPatternIn(text, patterns)
    THEN episode' = "open" /\ between' = 0
    ELSE IF episode = "open"
    THEN IF IsBlank(text)
         THEN episode' = "blank_seen" /\ UNCHANGED between
         ELSE /\ episode' = "open"
              /\ between' = IF between < MaxLines THEN between + 1 ELSE between
    ELSE IF episode = "blank_seen"
    THEN episode' = "next" /\ between' = 0
    ELSE episode' = "none" /\ between' = 0

notErr == <<clients, events, connVars, wakeVars, rcVars, ctVars, clVars, parseVars, gtpVars,
            ttyVars,
            pc, mcp_session, tools, selected_tool, listener_task, healthUrl,
            MCP_SERVER_URL, MCP_TOKEN, reconnects, obtained>>

\* the counter is left as it is
Decremented_Kept(depth) == depth

\* self.suppress_depth -= 1
Decremented(depth) == depth - 1

\* the suppression goes on through a depth of 0
DepthSpent_BelowZero(depth) == depth < 0

\* if self.suppress_depth <= 0: self.suppressing = False
DepthSpent(depth) == depth <= 0

\* FilteredStderr.write(text) of utils.py
Write ==
    /\ cls = "utils"
    /\ \E text \in Texts :
          /\ Account(text, suppress_patterns)
          /\ IF VERBOSE
             THEN /\ last' = Written(text, <<text>>)
                  /\ UNCHANGED <<suppressing, suppress_depth>>
             ELSE IF AnyPatternIn(text, suppress_patterns)
             THEN /\ suppressing' = TRUE
                  /\ suppress_depth' = SUPPRESS_LINES
                  /\ last' = Written(text, <<>>)
             ELSE IF suppressing
             THEN /\ IF EndsOnBlank(text)
                     THEN /\ suppressing' = FALSE
                          /\ suppress_depth' = 0
                     ELSE /\ suppress_depth' = Decremented(suppress_depth)
                          /\ suppressing' =
                                IF DepthSpent(suppress_depth') THEN FALSE ELSE suppressing
                  /\ last' = Written(text, <<>>)
             ELSE /\ last' = Written(text, <<text>>)
                  /\ UNCHANGED <<suppressing, suppress_depth>>
    /\ UNCHANGED <<cls, VERBOSE, notErr>>

\* FilteredStderr.write(text) of forbin.py: no verbose mode, no depth
WriteForbin ==
    /\ cls = "forbin"
    /\ \E text \in Texts :
          /\ Account(text, suppress_patterns_forbin)
          /\ IF AnyPatternIn(text, suppress_patterns_forbin)
             THEN /\ suppressing' = TRUE
                  /\ last' = Written(text, <<>>)
             ELSE IF suppressing /\ EndsOnBlank(text)
             THEN /\ suppressing' = FALSE
                  /\ last' = Written(text, <<>>)
             ELSE /\ last' = Written(text, IF suppressing THEN <<>> ELSE <<text>>)
                  /\ UNCHANGED suppressing
    /\ UNCHANGED <<cls, suppress_depth, VERBOSE, notErr>>

\* config.VERBOSE is flipped between two writes (the 'v' key, a config edit)
SetVerbose ==
    /\ cls = "utils"
    /\ VERBOSE' = ~VERBOSE
    /\ UNCHANGED <<errVars, notErr>>

\* ------------------------------------------------------- specifications
\* no coroutine is running
Idle ==
    /\ clients = <<>> /\ events = <<>>
    /\ client = NoClient /\ cal_mcp_session = None /\ cErr = ""
    /\ cRet = [session |-> None, tools |-> NoneTools]
    /\ rcPc = "idle" /\ old_session = None
    /\ rcRet = [session |-> None, tools |-> NoneTools]
    /\ mcp_session = None /\ tools = NoneTools /\ selected_tool = NoTool
    /\ reconnects = 0 /\ obtained = {}
    /\ ctPc = "idle" /\ ctSession = None /\ tool_task = "none" /\ esc_task = "none"
    /\ ctOutcome = "" /\ settled = <<>> /\ last_outcome = ""
    /\ clPc = "idle" /\ clSession = None /\ clErr = ""

\* parse_parameter_value has not been called
ParseIdle == value_str = <<>> /\ param_type = "" /\ parsed = NotCalled

\* no FilteredStderr has been written to
ErrIdle ==
    /\ cls = "" /\ suppressing = FALSE /\ suppress_depth = 0
    /\ last = NoWrite /\ episode = "none" /\ between = 0

\* wake_up_server is not running
WakeIdle == wkPc = "idle" /\ wkMax = 0 /\ wkAttempt = 0 /\ wkRet = FALSE /\ wkSeen = {}

\* neither connect function is running
ConnIdle == fn = "" /\ max_attempts = 0 /\ cPc = "idle" /\ attempt = 0 /\ shown = {}

\* a direct call of one of the two connect functions, any max_attempts
InitFactory ==
    /\ Idle /\ WakeIdle
    /\ fn \in {"connect_to_mcp_server", "connect_and_list_tools"}
    /\ max_attempts \in 0..MaxAttemptsArg
    /\ cPc = "for" /\ attempt = 0 /\ shown = {}
    /\ ParseIdle /\ ErrIdle /\ GtpIdle /\ TtyIdle
    /\ MCP_SERVER_URL = TRUE /\ MCP_TOKEN = TRUE /\ VERBOSE \in BOOLEAN
    /\ pc = "idle" /\ healthUrl = FALSE /\ listener_task = "none"

\* async_main: test_connectivity with --test, interactive_session without an
\* argument; either one from its first line: the listener task is created,
\* mcp_session = None
Init ==
    /\ Idle /\ WakeIdle /\ ConnIdle /\ ParseIdle /\ ErrIdle /\ GtpIdle /\ TtyIdle
    /\ pc \in {"start", "tc_start"}
    /\ listener_task = "running"
    /\ healthUrl \in BOOLEAN
    /\ MCP_SERVER_URL \in BOOLEAN /\ MCP_TOKEN \in BOOLEAN /\ VERBOSE \in BOOLEAN

Next ==
    \/ InteractiveSession \/ Reconnect \/ WakeUpServer \/ ConnectAndListTools
    \/ CallTool \/ Cleanup \/ TestConnectivity

Spec == Init /\ [][Next]_vars

NextFactory == ConnectToMcpServer \/ ConnectAndListTools

SpecFactory == InitFactory /\ [][NextFactory]_vars

\* a direct call of wake_up_server, any max_attempts
InitWake ==
    /\ Idle /\ ConnIdle /\ ParseIdle /\ ErrIdle /\ GtpIdle /\ TtyIdle
    /\ wkPc = "for" /\ wkMax \in 0..MaxWakeArg /\ wkAttempt = 0 /\ wkRet = FALSE
    /\ wkSeen = {}
    /\ MCP_SERVER_URL = TRUE /\ MCP_TOKEN = TRUE /\ VERBOSE \in BOOLEAN
    /\ pc = "idle" /\ healthUrl = TRUE /\ listener_task = "none"

NextWake == WakeUpServer

SpecWake == InitWake /\ [][NextWake]_vars

\* listen_for_toggle reads a 'v' while a directly called connection function
\* is suspended: config.VERBOSE = not config.VERBOSE
VerboseToggled ==
    /\ pc = "idle"
    /\ cPc \notin {"idle", "returned"} \/ wkPc \notin {"idle", "returned"}
    /\ VERBOSE' = ~VERBOSE
    /\ UNCHANGED <<clients, events, connVars, wakeVars, rcVars, ctVars, clVars, pc,
                   mcp_session, tools, selected_tool, listener_task, healthUrl,
                   MCP_SERVER_URL, MCP_TOKEN, reconnects, obtained>>
    /\ UNCHANGED auxVars

\* a direct call of one of the three connection functions with the verbose
\* flag flipped at any point of it
InitVerbose == InitFactory \/ InitWake

NextVerbose == NextFactory \/ NextWake \/ VerboseToggled

SpecVerbose == InitVerbose /\ [][NextVerbose]_vars

\* a direct call reconnect(old_session), with no previous session or with an
\* open one, with or without a health URL
InitReconnect ==
    /\ WakeIdle /\ ConnIdle /\ ParseIdle /\ ErrIdle /\ GtpIdle /\ TtyIdle
    /\ events = <<>>
    /\ client = NoClient /\ cal_mcp_session = None /\ cErr = ""
    /\ cRet = [session |-> None, tools |-> NoneTools]
    /\ \E previous \in BOOLEAN :
          IF previous
          THEN clients = <<[st |-> "open", exits |-> 0]>> /\ old_session = MCPSession(1, 1)
          ELSE clients = <<>> /\ old_session = None
    /\ rcPc = "start"
    /\ rcRet = [session |-> None, tools |-> NoneTools]
    /\ mcp_session = None /\ tools = NoneTools /\ selected_tool = NoTool
    /\ reconnects = 0 /\ obtained = {}
    /\ ctPc = "idle" /\ ctSession = None /\ tool_task = "none" /\ esc_task = "none"
    /\ ctOutcome = "" /\ settled = <<>> /\ last_outcome = ""
    /\ clPc = "idle" /\ clSession = None /\ clErr = ""
    /\ MCP_SERVER_URL = TRUE /\ MCP_TOKEN = TRUE /\ VERBOSE \in BOOLEAN
    /\ pc = "idle" /\ healthUrl \in BOOLEAN /\ listener_task = "none"

NextReconnect == Reconnect \/ WakeUpServer \/ ConnectAndListTools \/ Cleanup

\* every await of reconnect and of the functions it calls comes back: the
\* coroutine is resumed as long as it has a step to take
SpecReconnect == InitReconnect /\ [][NextReconnect]_vars /\ WF_vars(NextReconnect)

\* nothing of the session is running: the function or object is used by itself
Standalone ==
    /\ Idle /\ WakeIdle /\ ConnIdle
    /\ pc = "idle" /\ healthUrl = FALSE /\ listener_task = "none"
    /\ MCP_SERVER_URL = TRUE /\ MCP_TOKEN = TRUE

\* a call of parse_parameter_value, any typed text, any declared type
InitParse ==
    /\ Standalone /\ ErrIdle /\ GtpIdle /\ TtyIdle /\ VERBOSE = FALSE
    /\ value_str \in Inputs
    /\ param_type \in ParamTypes
    /\ parsed = NotCalled

NextParse == ParseParameterValue

SpecParse == InitParse /\ [][NextParse]_vars

\* a call get_tool_parameters(tool), any schema
InitParams ==
    /\ Standalone /\ ParseIdle /\ ErrIdle /\ TtyIdle /\ VERBOSE = FALSE
    /\ inputSchema \in Schemas
    /\ params = NoParams /\ gpPc = "start" /\ gpIdx = 0 /\ gpAsked = 0

NextParams == GetToolParameters

SpecParams == InitParams /\ [][NextParams]_vars

\* one of the two key-reading tasks is created, on any terminal
InitTty ==
    /\ Standalone /\ ParseIdle /\ ErrIdle /\ GtpIdle
    /\ VERBOSE \in BOOLEAN
    /\ \E fn_ \in KeyReaderFns : reader = Reader(fn_, "start", "", FALSE, "not_called")
    /\ tty_mode \in SavedModes /\ old_settings = ""

NextTty == KeyReader

SpecTty == InitTty /\ [][NextTty]_vars

\* a FilteredStderr of either class right after __init__, then any writes
InitStderr ==
    /\ Standalone /\ ParseIdle /\ GtpIdle /\ TtyIdle
    /\ VERBOSE \in BOOLEAN
    /\ cls \in {"utils", "forbin"}
    /\ suppressing = FALSE /\ suppress_depth = 0
    /\ last = NoWrite /\ episode = "none" /\ between = 0

NextStderr == Write \/ WriteForbin \/ SetVerbose

SpecStderr == InitStderr /\ [][NextStderr]_vars

\* ------------------------------------------------------------------ claims
\* C1: when interactive_session has ended, every session it was handed has had
\* cleanup invoked on it exactly once.
C1_EverySessionCleanedUpOnce ==
    pc = "done" => \A c \in obtained : clients[c].exits = 1

\* C2: at most one transport is live.  No two clients are entered and not yet
\* released at the same time, and whenever a client is about to be entered
\* (in the first attempt of a reconnect or in a retry) no other one is live.
C2_AtMostOneLiveTransport ==
    /\ Cardinality(Live) <= 1
    /\ cPc = "aenter" => Live = {}

\* C2 witness: a reconnect from the loop has released the previous session and
\* its second attempt has opened a client
C2_Witness ==
    /\ rcPc = "await_cal" /\ old_session # None
    /\ clients[old_session.client].st = "released"
    /\ attempt = 2 /\ cPc = "list_tools"
    /\ Live = {client}

\* C3: in reconnect(prev) with prev not None, the first thing done is
\* prev.cleanup(): it is on record before any health-probe GET, before any
\* connection attempt and before reconnect returns, whatever reconnect returns.
C3_CleanupPrecedesProbeAndConnect ==
    (old_session # None /\ rcPc \notin {"idle", "start"}) =>
        /\ Len(events) >= 1
        /\ events[1] = Ev("cleanup", old_session.client)
        /\ clients[old_session.client].st = "released"
        /\ \A i \in DOMAIN events :
              events[i].e \in {"get", "settle", "attempt", "construct", "aenter"} =>
                 i > 1

\* C3 witness: reconnect(prev) has returned None after a successful probe and
\* three failed connection attempts
C3_Witness ==
    /\ old_session # None /\ rcPc = "returned" /\ rcRet.session = None
    /\ CountEv("get") >= 1 /\ CountEv("attempt") = RECONNECT_CONNECT_ATTEMPTS

\* C4: a tool invocation is never in flight on a session that cleanup was
\* called on (after a failed reconnect the loop would hold no usable session).
C4_NoInvocationOnCleanedUpSession ==
    ctPc = "wait" => clients[ctSession.client].exits = 0

Terminal == cPc \in {"returned", "raised"}

ListEvents == {i \in DOMAIN events : events[i].e = "list_tools"}

\* C5: connect_and_list_tools never returns a non-null session whose listing
\* failed.  A session that is returned was listed successfully and comes with the
\* list that listing returned; a client whose listing failed is released by the
\* handler, is never listed again and is never the one returned, and the events
\* that follow its release start a whole new attempt.
C5_NoSessionWithFailedListing ==
    fn = "connect_and_list_tools" =>
        /\ (cPc = "returned" /\ cRet.session # None) =>
              /\ cRet.session.client \in ListedOk
              /\ cRet.tools.kind = "list"
              /\ cRet.tools.from = cRet.session.session
              /\ cRet.session.session = cRet.session.client
        /\ \A i \in ListEvents :
              events[i].c \in ListFailed =>
                 /\ ~(cPc = "returned" /\ cRet.session.client = events[i].c)
                 /\ \A j \in ListEvents : j # i => events[j].c # events[i].c
                 /\ cPc # "except" =>
                       /\ clients[events[i].c].st = "released"
                       /\ i + 2 <= Len(events)
                       /\ events[i + 2] = Ev("aexit", events[i].c)
                 /\ i + 3 <= Len(events) => events[i + 3].e \in {"sleep", "attempt"}

\* C5 witness: a first attempt whose listing failed, then a session returned by
\* a later attempt
C5_Witness ==
    /\ fn = "connect_and_list_tools" /\ cPc = "returned" /\ cRet.session # None
    /\ ListFailed # {}

\* C6: a listing is only ever issued on the session this attempt opened.  When
\* the listing is about to be issued the local mcp_session wraps this attempt's
\* client and that client is open; every listing on record directly follows the
\* construction and the handshake of the same client, in the same attempt.
C6_ListAfterOwnHandshake ==
    fn = "connect_and_list_tools" =>
        /\ cPc = "list_tools" =>
              /\ cal_mcp_session = MCPSession(client, client)
              /\ client # NoClient
              /\ clients[client].st = "open"
        /\ \A i \in ListEvents :
              /\ i > 3
              /\ events[i - 1] = Ev("aenter", events[i].c)
              /\ events[i - 2] = Ev("construct", events[i].c)
              /\ events[i - 3].e = "attempt"

\* C6 witness: the third attempt is about to list, after two failed attempts
C6_Witness ==
    /\ fn = "connect_and_list_tools" /\ cPc = "list_tools" /\ attempt = 3
    /\ Len(clients) >= 2

\* C7: no failed attempt leaves its client behind.  Outside the attempt that is
\* running, every client constructed by the call has had __aexit__ called on it
\* exactly once, except the client of the session that is returned.
C7_FailedAttemptReleased ==
    \A c \in DOMAIN clients :
        \/ c = client /\ cPc \in {"aenter", "list_tools", "except"}
        \/ cPc = "returned" /\ cRet.session.client = c
        \/ cPc = "raised"
        \/ clients[c].st = "released" /\ clients[c].exits = 1

\* C7 witness: the next attempt starts after an attempt that failed with its
\* client constructed, and that client is released
C7_Witness ==
    /\ cPc = "construct" /\ attempt >= 2
    /\ \E c \in DOMAIN clients : clients[c].st = "released"

\* C8: a session handed to the caller wraps a client whose own handshake
\* completed: it is open, was never released, and its session is the one its
\* own client's __aenter__ returned.
C8_ReturnedSessionIsOpen ==
    (cPc = "returned" /\ cRet.session # None) =>
        /\ cRet.session.client \in DOMAIN clients
        /\ cRet.session.session = cRet.session.client
        /\ clients[cRet.session.client].st = "open"
        /\ clients[cRet.session.client].exits = 0

\* C8 witness: a session is returned after an earlier attempt's handshake failed
C8_Witness ==
    /\ cPc = "returned" /\ cRet.session # None
    /\ Len(clients) >= 2

AllHandshakesFailed == \A c \in DOMAIN clients : clients[c].st # "open"

\* C9: with max_attempts >= 1 and every handshake failing,
\* connect_to_mcp_server ends by returning None after exactly max_attempts
\* attempts and max_attempts - 1 sleeps, each sleep followed by another attempt.
C9_ExactAttemptsAndSleeps ==
    (fn = "connect_to_mcp_server" /\ max_attempts >= 1 /\ Terminal
        /\ AllHandshakesFailed) =>
        /\ cPc = "returned"
        /\ cRet.session = None
        /\ CountEv("attempt") = max_attempts
        /\ CountEv("sleep") = max_attempts - 1
        /\ \A i \in DOMAIN events :
              events[i].e = "sleep" => i < Len(events) /\ events[i + 1].e = "attempt"

\* C9 witness: three attempts, all failed, the function has returned
C9_Witness ==
    /\ fn = "connect_to_mcp_server" /\ max_attempts = 3 /\ cPc = "returned"
    /\ AllHandshakesFailed /\ Len(clients) = 3

NoListingSucceeded == ListedOk = {}

\* C10: when no attempt of connect_and_list_tools gets through handshake and
\* listing, it ends by returning (None, []) after exactly max_attempts attempts.
C10_ExhaustedReturnsNullAndEmpty ==
    (fn = "connect_and_list_tools" /\ Terminal /\ NoListingSucceeded) =>
        /\ cPc = "returned"
        /\ cRet = [session |-> None, tools |-> EmptyList]
        /\ CountEv("attempt") = max_attempts

\* C10 witness: three attempts failed, one of them in the listing
C10_Witness ==
    /\ fn = "connect_and_list_tools" /\ max_attempts = 3 /\ cPc = "returned"
    /\ NoListingSucceeded
    /\ ListFailed # {}
    /\ DOMAIN clients \ ListFailed # {}

\* the clients whose attempt went through: handshake, and for
\* connect_and_list_tools the listing as well
Succeeded ==
    IF fn = "connect_and_list_tools"
    THEN ListedOk
    ELSE {c \in DOMAIN clients : clients[c].st = "open"}

\* the number of the attempt that constructed client c
AttemptOf(c) ==
    LET at == CHOOSE i \in DOMAIN events : events[i] = Ev("construct", c)
    IN  Cardinality({j \in 1..at : events[j].e = "attempt"})

\* C11: as soon as an attempt k goes through, the function has returned: it made
\* exactly k attempts (1 <= k <= max_attempts), no other attempt went through,
\* and what it returns is the session of attempt k's client and, for
\* connect_and_list_tools, the list that was listed from that session.
C11_FirstSuccessIsReturned ==
    \A c \in Succeeded :
        /\ cPc = "returned"
        /\ Succeeded = {c}
        /\ cRet.session = MCPSession(c, c)
        /\ AttemptOf(c) = CountEv("attempt")
        /\ AttemptOf(c) = attempt
        /\ attempt >= 1 /\ attempt <= max_attempts
        /\ fn = "connect_and_list_tools" =>
              /\ cRet.tools.kind = "list"
              /\ cRet.tools.from = c
        /\ \A d \in DOMAIN clients : d # c => clients[d].st = "released"

\* C11 witness: max_attempts = 3, two attempts failed, the third went through
\* and its session and its non-empty tool list are returned
C11_Witness ==
    /\ fn = "connect_and_list_tools" /\ max_attempts = 3 /\ cPc = "returned"
    /\ attempt = 3 /\ Len(clients) = 3
    /\ cRet.session = MCPSession(3, 3)
    /\ cRet.tools = ToolList(3, 1)

\* the GETs of this call that were answered with HTTP 200
Gets200 == {i \in DOMAIN events : events[i] = Ev("get", 200)}

\* C12: wake_up_server never issues more than max_attempts GETs; a GET that is
\* answered 200 is the last one and the call has returned True on it; and when
\* the call has returned, the number of GETs is the index of the first 200, or
\* max_attempts when no GET was answered 200.
C12_GetsUpToFirst200 ==
    /\ CountEv("get") <= wkMax
    /\ CountEv("get") = wkAttempt - (IF wkPc = "get" THEN 1 ELSE 0)
    /\ \A i \in Gets200 :
          /\ i = Len(events)
          /\ wkPc = "returned" /\ wkRet = TRUE
    /\ wkPc = "returned" =>
          /\ wkRet = (Gets200 # {})
          /\ Gets200 = {} => CountEv("get") = wkMax

\* C12 witness: max_attempts = 4, the second GET was answered 200 and the call
\* returned True with two GETs issued
C12_Witness ==
    /\ wkMax = 4 /\ wkPc = "returned" /\ wkRet = TRUE
    /\ CountEv("get") = 2 /\ events[Len(events)] = Ev("get", 200)

\* C13: wake_up_server never raises.  A non-200 status and every exception of a
\* GET leave the call in its loop, and a call that has ended without a 200 has
\* returned False after max_attempts GETs.
C13_WakeNeverRaises ==
    /\ wkPc # "raised"
    /\ wkSeen # {} => wkPc \in {"sleep", "for", "get", "returned"}
    /\ (wkPc \notin {"idle", "for", "get", "sleep"} /\ Gets200 = {}) =>
          /\ wkPc = "returned"
          /\ wkRet = FALSE
          /\ CountEv("get") = wkMax

\* C13 witness: four attempts failed, each in another way (a 503, a connection
\* error, a timeout, another exception), and the call returned False
C13_Witness ==
    /\ wkPc = "returned" /\ wkRet = FALSE
    /\ wkSeen = Responses \ {"200"}

\* C14: while a health probe has been answered no 200 (it is running or has
\* failed all its attempts), connect_and_list_tools is not running and nothing
\* of it is on record: no attempt, no client constructed, no handshake, no
\* settle delay.  A reconnect that returns in that case has made all
\* RECONNECT_WAKE_ATTEMPTS GETs and returns no session; test_connectivity ends
\* without one.
C14_FailedProbeMeansNoConnect ==
    (CountEv("get") >= 1 /\ Gets200 = {}) =>
        /\ fn = "" /\ cPc = "idle"
        /\ CountEv("attempt") = 0 /\ CountEv("construct") = 0
        /\ CountEv("aenter") = 0 /\ CountEv("settle") = 0
        /\ rcPc \in {"idle", "await_wake", "returned"}
        /\ rcPc = "returned" =>
              /\ rcRet = [session |-> None, tools |-> NoneTools]
              /\ CountEv("get") = RECONNECT_WAKE_ATTEMPTS
        /\ rcPc = "idle" =>
              /\ pc \in {"tc_await_wake", "tc_finally", "done", "listener_raised"}
              /\ mcp_session = None

\* C14 witness: a reconnect from the loop has returned after six GETs, none of
\* them answered 200
C14_Witness ==
    /\ rcPc = "returned" /\ old_session # None /\ healthUrl
    /\ CountEv("get") = RECONNECT_WAKE_ATTEMPTS /\ Gets200 = {}
    /\ rcRet.session = None

\* the places of test_connectivity between its first line and its end
TcRunning ==
    {"tc_await_wake", "tc_settle", "tc_connect", "tc_await_cal", "tc_finally",
     "tc_await_cleanup"}

\* C15: with no health URL configured, a running reconnect or test_connectivity
\* issues no GET and no settle delay and wake_up_server is never started; leaving
\* aside the cleanup of the previous session, the first thing on record is the
\* first attempt of connect_and_list_tools, and neither function ends without
\* having called it.
C15_NoHealthUrlGoesStraightToConnect ==
    (~healthUrl /\ (rcPc # "idle" \/ pc \in TcRunning)) =>
        /\ CountEv("get") = 0 /\ CountEv("settle") = 0
        /\ wkPc = "idle"
        /\ \A i \in DOMAIN events :
              (events[i].e # "cleanup" /\ \A j \in 1..(i - 1) : events[j].e = "cleanup")
                 => events[i] = Ev("attempt", 1)
        /\ (rcPc = "returned" \/ pc \in {"tc_finally", "tc_await_cleanup"}) =>
              CountEv("attempt") >= 1

\* C15 witness: reconnect(None) without a health URL has returned a session and
\* the first thing it did was the first connection attempt
C15_Witness ==
    /\ ~healthUrl /\ rcPc = "returned" /\ old_session = None
    /\ rcRet.session # None
    /\ events[1] = Ev("attempt", 1)

\* C16: MCPSession.cleanup never raises.  Whether it is the first or a later
\* call on the session and whether the awaited __aexit__ returned or raised, the
\* call ends by returning, with __aexit__ called on the session's client, and no
\* caller is left by an exception of it.
C16_CleanupNeverRaises ==
    /\ clPc # "raised"
    /\ pc # "raised"
    /\ clPc \in {"except", "returned"} =>
          /\ clients[clSession.client].st = "released"
          /\ clients[clSession.client].exits >= 1
          /\ clPc = "except" => clErr = "raise"

\* C16 witness: the second cleanup of a session, made by the finally block on a
\* session a failed reconnect had already cleaned up, has returned although the
\* transport close raised
C16_Witness ==
    /\ pc = "await_cleanup" /\ clPc = "returned" /\ clErr = "raise"
    /\ clSession = mcp_session
    /\ clients[clSession.client].exits = 2

\* the call has returned and every task it cancelled ended with CancelledError
ReturnedCleanly ==
    /\ ctPc = "returned"
    /\ tool_task # "cancel_raised" /\ esc_task # "cancel_raised"

\* C17: call_tool ends with exactly one outcome, decided by the task that settled
\* first.  When the invocation settled first the outcome is its result
\* ("completed", or "failed" when it raised) and the watcher was cancelled; when
\* the watcher settled first the outcome is "cancelled" and the invocation was
\* cancelled, unless it had finished by itself in the meantime.
C17_FirstSettledDecides ==
    ReturnedCleanly =>
        /\ ctOutcome \in {"completed", "failed", "cancelled"}
        /\ Len(settled) >= 1
        /\ settled[1] = "tool" =>
              /\ ctOutcome = (IF tool_task = "result" THEN "completed" ELSE "failed")
              /\ esc_task = "cancelled"
        /\ settled[1] = "esc" =>
              /\ ctOutcome = "cancelled"
              /\ tool_task = "cancelled" \/ (Len(settled) = 2 /\ InDone(tool_task))

\* C18: when call_tool has returned, whatever it reports, neither task is
\* pending: each one finished by itself or was cancelled and awaited.
C18_NoTaskPendingAfterReturn ==
    ctPc = "returned" =>
        /\ tool_task \in {"result", "exception", "cancelled", "cancel_raised"}
        /\ esc_task \in {"result", "exception", "cancelled", "cancel_raised"}
        /\ ctOutcome \in {"completed", "failed", "cancelled"}

\* C18 witness: the user cancelled; the invocation was pending when the wait
\* returned and is cancelled now
C18_Witness ==
    /\ ctPc = "returned" /\ ctOutcome = "cancelled"
    /\ settled = <<"esc">> /\ tool_task = "cancelled"

\* C19: when the invocation raised and was the first task to settle, call_tool
\* returns with the outcome "failed".
C19_ToolExceptionReportedAsFailure ==
    (ctPc = "returned" /\ Len(settled) >= 1 /\ settled[1] = "tool"
        /\ tool_task = "exception") =>
        ctOutcome = "failed"

\* C20: call_tool leaves the session alone.  While the loop waits for call_tool
\* no step changes a client, the loop's session or its tool list, and the call
\* works on the session the loop holds.
C20_CallToolLeavesSessionAlone ==
    /\ [](pc = "await_call" => (ctSession = mcp_session /\ clPc = "idle"))
    /\ [][pc = "await_call" =>
            (clients' = clients /\ mcp_session' = mcp_session /\ tools' = tools)]_vars

\* C20 witness: after a call that was cancelled or failed, the next call on the
\* same open session has completed with a result
C20_Witness ==
    /\ last_outcome \in {"cancelled", "failed"}
    /\ ctPc = "returned" /\ ctOutcome = "completed"
    /\ ctSession = mcp_session
    /\ clients[mcp_session.client].st = "open"

\* the places of interactive_session inside its tool-selection loop
LoopPlaces ==
    {"list_prompt", "await_list_reconnect", "tool_prompt", "await_call",
     "await_tool_reconnect"}

\* the places at which interactive_session or test_connectivity has ended
Ended == {"done", "raised", "listener_raised"}

\* C21: the key-listener task has terminated at the first prompt of the
\* tool-selection loop and everywhere in the loop after it, and it has
\* terminated whenever interactive_session has ended, by a return (invalid
\* configuration, failed initial connection, no tools, quit) or by an exception.
C21_ListenerTerminatedBeforePrompt ==
    /\ pc \in LoopPlaces => listener_task = "done"
    /\ pc \in Ended => listener_task = "done"
    /\ pc = "await_cleanup" => listener_task = "done"

\* C21 witness: the first prompt of the loop, right after the initial connection
\* returned a session with tools, and the listener is done
C21_Witness ==
    /\ pc = "list_prompt" /\ reconnects = 0 /\ last_outcome = ""
    /\ mcp_session # None /\ Truthy(tools)
    /\ listener_task = "done"

\* nothing of a connection has happened: no GET, no client constructed, no
\* connect attempt, and neither reconnect, wake_up_server nor a connect
\* function is running
NothingAttempted ==
    /\ clients = <<>> /\ events = <<>>
    /\ rcPc = "idle" /\ wkPc = "idle" /\ cPc = "idle" /\ fn = ""
    /\ mcp_session = None /\ obtained = {}

\* C22: interactive_session calls reconnect(None) only with a server URL and a
\* token set.  When one of them is missing after the validation step (with or
\* without the first-run wizard) control goes to the finally block with nothing
\* attempted, and from there the function ends without a probe, a connection
\* attempt or a prompt of the tool-selection loop.
C22_InvalidConfigReturnsWithoutReconnect ==
    /\ [](pc \in {"connect", "await_initial"} => (MCP_SERVER_URL /\ MCP_TOKEN))
    /\ [][(pc = "start" /\ pc' # "start" /\ ~(MCP_SERVER_URL' /\ MCP_TOKEN'))
             => pc' = "finally"]_vars
    /\ []((pc = "finally" /\ reconnects = 0 /\ ~(MCP_SERVER_URL /\ MCP_TOKEN))
             => NothingAttempted)
    /\ [][(pc = "finally" /\ NothingAttempted)
             => (pc' \in {"finally", "done", "listener_raised"} /\ NothingAttempted')]_vars

\* C22 witness: interactive_session has ended with the token missing and
\* nothing attempted
C22_Witness ==
    /\ pc = "done" /\ MCP_SERVER_URL /\ ~MCP_TOKEN
    /\ NothingAttempted /\ reconnects = 0

\* a handler of a connect function has just run on a BrokenResourceError or
\* ClosedResourceError
NotReadyHandled == cPc = "except" /\ NotReady(cErr) /\ cPc' # "except"

\* C23 as stated: a BrokenResourceError or ClosedResourceError of a connect
\* attempt puts a message on the console on the final attempt and on no other.
C23_SilentUnlessFinalAttempt ==
    [][NotReadyHandled => (attempt \in shown' <=> attempt = max_attempts)]_vars

\* C23 amended: with verbose off such an error is retried without a message
\* unless the attempt is the final one; the handler prints "Connection error
\* (server not ready)" on the final attempt and, with verbose on, on every
\* attempt.  During the sleep after a non-final attempt the console has the
\* attempt's message exactly when verbose is on.
C23_SilentUnlessFinalOrVerbose ==
    /\ [][NotReadyHandled =>
            /\ attempt \in shown' <=> (VERBOSE \/ attempt = max_attempts)
            /\ shown' \ {attempt} = shown]_vars
    /\ []((cPc = "sleep" /\ NotReady(cErr)) =>
            /\ attempt < max_attempts
            /\ attempt \in shown <=> VERBOSE)
    /\ [](~VERBOSE => shown \subseteq {max_attempts})

\* C23 witness: verbose is off, the second of three attempts failed with a
\* ClosedResourceError and the function sleeps with nothing on the console
C23_Witness ==
    /\ cPc = "sleep" /\ cErr = "ClosedResourceError" /\ ~VERBOSE
    /\ attempt = 2 /\ max_attempts = 3 /\ shown = {}

\* the call has been made
ParseReturned == parsed # NotCalled

\* C24: for an empty or whitespace-only text parse_parameter_value returns None
\* whatever the declared type; for type boolean it returns True for true, t,
\* yes, y and 1 and False for false, f, no, n and 0, each in lower case, in
\* upper case and capitalised.
C24_BlankIsNoneAndBooleanWords ==
    ParseReturned =>
        /\ (\A i \in DOMAIN value_str : value_str[i] \in {" ", "\t"}) => parsed = PyNone
        /\ param_type = "boolean" =>
              \A k \in Cases :
                 /\ \A w \in {<<"t", "r", "u", "e">>, <<"t">>, <<"y", "e", "s">>,
                               <<"y">>, <<"1">>} :
                       value_str = Cased(w, k) => parsed = PyBool(TRUE)
                 /\ \A w \in {<<"f", "a", "l", "s", "e">>, <<"f">>, <<"n", "o">>,
                               <<"n">>, <<"0">>} :
                       value_str = Cased(w, k) => parsed = PyBool(FALSE)

\* C24 witness: "YES" typed for a boolean has come back as True
C24_Witness ==
    /\ value_str = <<"Y", "E", "S">> /\ param_type = "boolean"
    /\ parsed = PyBool(TRUE)

\* C25: the last write, if it was made with verbose off and one of the suppress
\* patterns of the object's class occurs in its text, put nothing on the
\* original stderr, whatever the state of the filter was and whatever was
\* written before.
C25_PatternWriteNeverForwarded ==
    (/\ last.made /\ ~last.verbose
     /\ \E i \in DOMAIN last.text :
           last.text[i] \in (IF cls = "utils" THEN suppress_patterns
                             ELSE suppress_patterns_forbin))
        => last.forwarded = <<>>

\* C25 witness: verbose is off and a text with a pattern in second place has
\* been swallowed and has started a suppression
C25_Witness ==
    /\ cls = "utils" /\ last.made /\ ~last.verbose
    /\ last.text = <<"traceback details", "File ">>
    /\ last.forwarded = <<>> /\ suppressing /\ suppress_depth = SUPPRESS_LINES

\* a step that is a write
WriteStep == last'.tick # last.tick

PatternFree(text) == \A i \in DOMAIN text : text[i] \notin suppress_patterns

\* C26 as stated: with verbose off a pattern-free write made while the filter
\* is not suppressing is forwarded unchanged; after a pattern line none of the
\* lines that follow it is forwarded, the first blank write after it is not
\* forwarded and ends the suppression, and the pattern-free write after that
\* blank line is forwarded.
C26_BlankLineEndsSuppression ==
    /\ [][(WriteStep /\ ~VERBOSE /\ ~suppressing /\ PatternFree(last'.text))
             => last'.forwarded = <<last'.text>>]_vars
    /\ []((episode = "open" /\ between >= 1) => last.forwarded = <<>>)
    /\ [](episode = "blank_seen" => (last.forwarded = <<>> /\ ~suppressing))
    /\ [](episode = "next" => last.forwarded = <<last.text>>)

\* C26 amended: as before, but only the first SUPPRESS_LINES lines after the
\* pattern line are held back, and the blank write is held back when fewer
\* than SUPPRESS_LINES lines came between; with SUPPRESS_LINES lines or more
\* the suppression has ended before the blank line.  The write after the blank
\* line is forwarded in every case.
C26_BlankLineEndsSuppressionWithinDepth ==
    /\ [][(WriteStep /\ ~VERBOSE /\ ~suppressing /\ PatternFree(last'.text))
             => last'.forwarded = <<last'.text>>]_vars
    /\ []((cls = "utils" /\ episode = "open" /\ between >= 1 /\ between <= SUPPRESS_LINES)
             => last.forwarded = <<>>)
    /\ []((cls = "utils" /\ episode = "blank_seen" /\ between < SUPPRESS_LINES)
             => last.forwarded = <<>>)
    /\ []((cls = "utils" /\ episode = "open" /\ between > SUPPRESS_LINES)
             => last.forwarded = <<last.text>>)
    /\ []((cls = "forbin" /\ episode = "open" /\ between >= 1) => last.forwarded = <<>>)
    /\ []((cls = "forbin" /\ episode = "blank_seen") => last.forwarded = <<>>)
    /\ [](episode = "blank_seen" => ~suppressing)
    /\ [](episode = "next" => last.forwarded = <<last.text>>)

\* C26 witness: a pattern line, one line of details, a blank line, and the
\* write after it has gone through
C26_Witness ==
    /\ cls = "utils" /\ episode = "next" /\ ~VERBOSE
    /\ last.text = <<"traceback details", "\n">>
    /\ last.forwarded = <<last.text>>

\* the number of GETs among the first i events
GetsUpTo(i) == Cardinality({j \in 1..i : events[j].e = "get"})

\* C27: wake_up_server sleeps after each failed attempt except the last.  A
\* sleep comes right after a GET that was not answered 200 and that was not
\* the GET of attempt max_attempts; a failed GET of an earlier attempt is
\* followed by a sleep before anything else; a call that returns True after n
\* GETs has slept n - 1 times and one that returns False after max_attempts
\* (at least one) failed GETs has slept max_attempts - 1 times.
C27_SleepsBetweenFailedAttempts ==
    /\ \A i \in DOMAIN events :
          events[i].e = "sleep" =>
             /\ i > 1 /\ events[i - 1] = Ev("get", 0)
             /\ GetsUpTo(i) < wkMax
    /\ \A i \in DOMAIN events :
          (events[i] = Ev("get", 0) /\ GetsUpTo(i) < wkMax /\ i < Len(events))
             => events[i + 1].e = "sleep"
    /\ (wkPc = "returned" /\ wkRet) =>
          /\ events[Len(events)] = Ev("get", 200)
          /\ CountEv("sleep") = CountEv("get") - 1
    /\ (wkPc = "returned" /\ ~wkRet /\ wkMax >= 1) =>
          /\ CountEv("get") = wkMax
          /\ CountEv("sleep") = wkMax - 1
          /\ events[Len(events)] = Ev("get", 0)

\* C27 witness: all four attempts failed and the call has returned False after
\* three sleeps
C27_Witness ==
    /\ wkPc = "returned" /\ ~wkRet /\ wkMax = 4
    /\ CountEv("get") = 4 /\ CountEv("sleep") = 3

\* what connect_and_list_tools puts on record, its sleeps aside
ConnectEvents ==
    {"attempt", "construct", "aenter", "aexit", "list_tools", "listed", "list_failed"}

\* the step of reconnect an event belongs to; 0 for a sleep, which both the
\* probe and the connect loop make
Step(e) ==
    CASE e = "cleanup" -> 1
      [] e = "get" -> 2
      [] e = "settle" -> 3
      [] e \in ConnectEvents -> 4
      [] OTHER -> 0

\* C28: in a reconnect the events come in the order cleanup of the previous
\* session, GETs of the probe, settle delay, connect-and-list; there is at most
\* one cleanup and one settle delay.  Once connect_and_list_tools has been
\* started with a health URL configured, the settle delay is on record right
\* after the GET answered 200 and right before the first connection attempt;
\* without a successful probe there is no settle delay.
C28_SettleBetweenProbeAndConnect ==
    rcPc # "idle" =>
        /\ LET Stepped(x) == Step(x.e) # 0
               S == SelectSeq(events, Stepped)
           IN  \A i \in 1..(Len(S) - 1) : Step(S[i].e) <= Step(S[i + 1].e)
        /\ CountEv("cleanup") <= 1 /\ CountEv("settle") <= 1
        /\ \A i \in DOMAIN events :
              events[i].e = "settle" =>
                 /\ healthUrl
                 /\ i > 1 /\ events[i - 1] = Ev("get", 200)
                 /\ i < Len(events) => events[i + 1] = Ev("attempt", 1)
        /\ (healthUrl /\ (fn # "" \/ CountEv("attempt") >= 1)) => CountEv("settle") = 1

\* C28 witness: reconnect(prev) with a health URL has returned a session; the
\* record starts with the cleanup, the second GET was answered 200 and one
\* settle delay followed
C28_Witness ==
    /\ rcPc = "returned" /\ healthUrl /\ old_session # None
    /\ rcRet.session # None
    /\ events[1].e = "cleanup" /\ CountEv("get") = 2 /\ CountEv("settle") = 1

\* the caller of reconnect takes what it returned
TakesResult == rcPc = "returned" /\ rcPc' = "idle"

\* C29: the tool list held is always the one listed from the session held
\* (none when no session is held).  The two change only when the result of a
\* reconnect (or, in test_connectivity, of connect_and_list_tools) is taken;
\* a result with a session replaces both, the new list being the whole list
\* that reconnect returned with that session, and a result without a session
\* in the loop leaves the list as it is.
C29_ToolsReplacedWithSession ==
    /\ [](tools.from = mcp_session.session)
    /\ [](mcp_session # None => tools.kind = "list")
    /\ [][(TakesResult /\ rcRet.session # None) =>
            /\ rcRet.tools.from = rcRet.session.session
            /\ mcp_session' # None
            /\ clients'[mcp_session'.client] = clients[rcRet.session.client]
            /\ tools'.kind = rcRet.tools.kind /\ tools'.n = rcRet.tools.n
            /\ tools'.from = mcp_session'.session]_vars
    /\ [][(TakesResult /\ rcRet.session = None /\ pc # "await_initial") =>
            /\ tools'.kind = tools.kind /\ tools'.n = tools.n
            /\ clients'[mcp_session'.client] = clients[mcp_session.client]]_vars
    /\ [][(tools' # tools \/ mcp_session' # mcp_session)
             => (TakesResult \/ pc = "tc_await_cal")]_vars

\* C29 witness: back at the tool list after a reconnect from the loop that
\* returned a session with an empty list, which has replaced the list of one
\* tool
C29_Witness ==
    /\ pc = "list_prompt" /\ reconnects = 1
    /\ mcp_session # None /\ clients[mcp_session.client].st = "open"
    /\ tools = ToolList(mcp_session.session, 0)

\* the two prompts of the loop
Prompts == {"list_prompt", "tool_prompt"}

\* C30: inside the tool-selection loop, whatever reconnect returns (a session
\* or the failure pair) puts the session back at the tool-list prompt, and
\* however call_tool ends (completed, failed, cancelled) puts it back at the
\* tool-view prompt; while the loop waits for either of them some step can
\* always be taken, so no exception ends the wait; and the loop is left only
\* from one of its prompts, never out of a reconnect or an invocation.
C30_LoopSurvivesFailures ==
    /\ [][(pc \in {"await_list_reconnect", "await_tool_reconnect"} /\ pc' # pc)
             => pc' = "list_prompt"]_vars
    /\ [][(pc = "await_call" /\ pc' # pc) => pc' = "tool_prompt"]_vars
    /\ [](pc \in LoopPlaces \ Prompts => ENABLED Next)
    /\ [][(pc \in LoopPlaces /\ pc' \notin LoopPlaces)
             => (pc \in Prompts /\ pc' = "finally")]_vars

\* C30 witness: a reconnect made from the loop has failed, leaving the
\* cleaned-up session in place, then an invocation on it has failed, and the
\* session is at the tool-view prompt
C30_Witness ==
    /\ pc = "tool_prompt" /\ last_outcome = "failed"
    /\ reconnects = 1
    /\ mcp_session # None /\ clients[mcp_session.client].st # "open"

\* C39: in FilteredStderr of utils.py, suppressing is true exactly when
\* suppress_depth is greater than 0 and suppress_depth stays within 0..10; a
\* write made while config.VERBOSE is on changes neither field.
C39_SuppressingIffDepthPositive ==
    /\ [](cls = "utils" =>
            /\ suppressing <=> suppress_depth > 0
            /\ suppress_depth \in 0..SUPPRESS_LINES)
    /\ [][(cls = "utils" /\ last' # last /\ VERBOSE)
             => (suppressing' = suppressing /\ suppress_depth' = suppress_depth)]_vars

\* C39 witness: a write was made with verbose on in the middle of a
\* suppression, which stands at depth 5 after it
C39_Witness ==
    /\ cls = "utils" /\ last.made /\ last.verbose
    /\ suppressing /\ suppress_depth = 5

\* C40: with verbose off, after a pattern line and with no further pattern
\* line and no blank line, the first 10 non-blank pattern-free writes are
\* dropped and count the depth down to 0, and the 11th and every later one is
\* forwarded to the original stderr.
C40_SuppressionBounded ==
    (cls = "utils" /\ episode = "open" /\ between >= 1) =>
        /\ last.made /\ ~last.verbose
        /\ between <= SUPPRESS_LINES =>
              /\ last.forwarded = <<>>
              /\ suppress_depth = SUPPRESS_LINES - between
        /\ between > SUPPRESS_LINES =>
              /\ last.forwarded = <<last.text>>
              /\ ~suppressing /\ suppress_depth = 0

\* C40 witness: the 11th non-blank pattern-free write after a pattern line
\* has gone to the original stderr
C40_Witness ==
    /\ cls = "utils" /\ episode = "open" /\ between = SUPPRESS_LINES + 1
    /\ last.made /\ ~last.verbose /\ last.forwarded = <<last.text>>
    /\ ~IsBlank(last.text)

\* C33: when both tasks had finished by themselves before the wait in
\* call_tool returned, in either order, neither is cancelled and the call is
\* reported as cancelled: the result or the exception of the invocation is
\* not shown.
C33_BothDoneMeansCancelled ==
    (ctPc = "returned" /\ Len(settled) = 2) =>
        /\ ctOutcome = "cancelled"
        /\ tool_task \in {"result", "exception"}
        /\ esc_task \in {"result", "exception"}

\* C33 witness: the invocation returned its result first, the watcher finished
\* after it, and the call was reported as cancelled
C33_Witness ==
    /\ ctPc = "returned" /\ settled = <<"tool", "esc">>
    /\ tool_task = "result" /\ ctOutcome = "cancelled"

\* C37: whenever the watcher was the first task to finish, by returning or by
\* raising, call_tool reports the call as cancelled, and the invocation, if it
\* had not finished by itself before the wait returned, was cancelled.
C37_WatcherFirstAlwaysCancelled ==
    (ctPc = "returned" /\ Len(settled) >= 1 /\ settled[1] = "esc") =>
        /\ ctOutcome = "cancelled"
        /\ Len(settled) = 1 => tool_task = "cancelled"

\* the tool view is open: at its prompt or waiting for call_tool
InToolView == pc \in {"tool_prompt", "await_call"}

\* C34: while the tool view is open the selected descriptor is an element of
\* the tool list the loop holds, so every invocation is made with such a
\* descriptor; a reconnect started from the tool view, whatever it returns,
\* is followed by the tool-list prompt, and a tool view is opened only by a
\* selection from the list held at that moment.
C34_InvokedToolIsInHeldList ==
    /\ [](InToolView =>
            /\ tools.kind = "list"
            /\ selected_tool.from = tools.from
            /\ selected_tool.idx \in 1..tools.n)
    /\ [][(pc = "await_tool_reconnect" /\ pc' # pc) => pc' = "list_prompt"]_vars
    /\ [][(~InToolView /\ InToolView')
             => (pc = "list_prompt" /\ pc' = "tool_prompt" /\ tools' = tools
                 /\ selected_tool'.from = tools.from)]_vars
    /\ [][(pc # "await_call" /\ pc' = "await_call") => pc = "tool_prompt"]_vars

\* C34 witness: after a reconnect that replaced the session, a tool of the
\* new list is being invoked on the new session
C34_Witness ==
    /\ pc = "await_call" /\ reconnects = 1
    /\ mcp_session # None /\ clients[mcp_session.client].st = "open"
    /\ tools.from = mcp_session.session
    /\ selected_tool = Tool(tools.from, 1)
    /\ Cardinality(obtained) = 2

\* the key readers that have the terminal: the verbose-toggle listener while
\* its task runs, the ESC watcher while its task is pending
KeyReaders ==
    (IF listener_task = "running" THEN {"listener"} ELSE {})
        \cup (IF esc_task = "pending" THEN {"esc"} ELSE {})

\* C35: at most one key reader has the terminal at any time.  The listener
\* has terminated whenever call_tool is running, an ESC watcher is created
\* only by a starting call_tool, and no watcher is pending before call_tool
\* has created its own or after call_tool has returned.
C35_OneKeyReader ==
    /\ [](Cardinality(KeyReaders) <= 1)
    /\ [](ctPc # "idle" => listener_task = "done")
    /\ [](ctPc \in {"idle", "start", "returned"} => esc_task # "pending")
    /\ [][(esc_task # "pending" /\ esc_task' = "pending")
             => (ctPc = "start" /\ listener_task = "done")]_vars

\* C35 witness: the watcher of a second call in a row is pending, the first
\* call having been cancelled by its own watcher
C35_Witness ==
    /\ ctPc = "wait" /\ esc_task = "pending" /\ tool_task = "pending"
    /\ last_outcome = "cancelled"
    /\ listener_task = "done"

\* C36: what a connection function does is fixed by its arguments and by the
\* network responses on record, whatever the verbose flag was and whenever it
\* was flipped.  A connect function that has returned made one attempt per
\* failed handshake or listing and one more if it returns a session, all
\* max_attempts of them if it returns None; it slept once after every attempt
\* but the last one; it released every client it constructed except the one
\* it returns; and it returns a session exactly when the last attempt's
\* handshake (and listing) went through.  wake_up_server that has returned
\* made a GET per attempt up to the first 200, slept once after every GET but
\* the last, and returns True exactly when its last GET got 200.
C36_VerboseNeverChangesControlFlow ==
    /\ cPc = "returned" =>
          LET A == CountEv("attempt")
              ok == cRet.session # None
              made == IF ok THEN 1 ELSE 0
          IN  /\ A = attempt /\ A <= max_attempts
              /\ ~ok => A = max_attempts
              /\ ok => A >= 1
              /\ CountEv("sleep") = (IF A = 0 THEN 0 ELSE A - 1)
              /\ CountEv("aexit") = CountEv("construct") - made
              /\ CountEv("aenter") <= CountEv("construct")
              /\ ok <=> /\ events # <<>>
                        /\ events[Len(events)].e =
                              (IF fn = "connect_and_list_tools" THEN "listed" ELSE "aenter")
                        /\ clients[events[Len(events)].c].st = "open"
    /\ wkPc = "returned" =>
          LET G == CountEv("get") IN
              /\ G = wkAttempt /\ G <= wkMax
              /\ ~wkRet => G = wkMax
              /\ CountEv("sleep") = (IF G = 0 THEN 0 ELSE G - 1)
              /\ Cardinality(Gets200) = (IF wkRet THEN 1 ELSE 0)
              /\ wkRet <=> (events # <<>> /\ events[Len(events)] = Ev("get", 200))
    /\ cPc \notin {"idle", "returned"} =>
          /\ CountEv("attempt") = attempt
          /\ CountEv("sleep") = (IF attempt = 0 THEN 0
                                 ELSE IF cPc = "for" /\ attempt < max_attempts
                                 THEN attempt
                                 ELSE attempt - 1)

\* C36 witness: connect_and_list_tools returned a session on its third
\* attempt; the failure of the first attempt was announced and that of the
\* second was not, so the flag was on during the first and off during the
\* second
C36_Witness ==
    /\ fn = "connect_and_list_tools" /\ cPc = "returned"
    /\ cRet.session # None /\ attempt = 3
    /\ shown = {1}

\* C32: with every await coming back, a call of reconnect returns, and from
\* its first step to its return it has made at most 6 GETs of the health
\* URL, at most one settle delay and at most 3 connection attempts.
C32_ReconnectTerminatesWithinBudget ==
    /\ <>(rcPc = "returned")
    /\ [](/\ CountEv("get") <= RECONNECT_WAKE_ATTEMPTS
          /\ CountEv("settle") <= 1
          /\ CountEv("attempt") <= RECONNECT_CONNECT_ATTEMPTS)

\* C32 witness: reconnect has returned the failure pair after using all of
\* it: five GETs that failed and a sixth answered 200, the settle delay, and
\* three connection attempts that failed
C32_Witness ==
    /\ rcPc = "returned" /\ rcRet.session = None
    /\ CountEv("get") = RECONNECT_WAKE_ATTEMPTS /\ Gets200 # {}
    /\ CountEv("settle") = 1
    /\ CountEv("attempt") = RECONNECT_CONNECT_ATTEMPTS

\* C31: when get_tool_parameters has returned, every parameter named in the
\* schema's required set has a value in the result.
C31_RequiredParametersHaveValues ==
    gpPc = "returned" => inputSchema.required \subseteq DOMAIN params

\* a key-reading task that had switched the terminal to cbreak has ended
EndedAfterCbreak == reader.pc = "done" /\ reader.switched

====
